---- MODULE Spec2Model ----
(***************************************************************************)
(* Model of app/pipeline.py (the quantification core: mean_in_mask,        *)
(* compute_suvr, resample_mask_to_target, convert_to_scale; the            *)
(* conversion dcm2niix_convert; the registration                           *)
(* pet_to_template_registration; the run main) and of                      *)
(* app/xnat_upload.py (create_assessment, upload_files, upload_to_xnat).   *)
(*                                                                         *)
(* Numbers.  The code computes with IEEE-754 binary floating point         *)
(* (Python float, numpy float64).  The model keeps the format's shape,     *)
(* with a reduced width: a value is not-a-number, an infinity, or          *)
(* m * 2^e with an integer significand |m| < 2^MantBits and                *)
(* -MinExpMag <= e <= MaxExp; every operation rounds its exact result to   *)
(* nearest, ties to even, overflows to an infinity and underflows through  *)
(* subnormals to zero.  The sign of zero is not kept: it is not observable *)
(* through ==, >, truth value or isnan, which is all the code uses.        *)
(***************************************************************************)
EXTENDS Integers, Sequences, FiniteSets, TLC

\* ------------------------------------------------------------------------
\* Bounds of the model
\* ------------------------------------------------------------------------
MantBits == 8
MaxExp == 6
MinExpMag == 16
NVox == 2

MinExp == 0 - MinExpMag

\* ------------------------------------------------------------------------
\* Floating point values
\* ------------------------------------------------------------------------
RECURSIVE Pow2(_)
Pow2(n) == IF n <= 0 THEN 1 ELSE 2 * Pow2(n - 1)

Abs(x) == IF x < 0 THEN 0 - x ELSE x
Sgn(x) == IF x < 0 THEN 0 - 1 ELSE 1
Min2(a, b) == IF a < b THEN a ELSE b

NaN == [k |-> "nan", m |-> 0, e |-> 0]
PInf == [k |-> "inf", m |-> 1, e |-> 0]
NInf == [k |-> "inf", m |-> 0 - 1, e |-> 0]
Inf(s) == IF s < 0 THEN NInf ELSE PInf
Zero == [k |-> "fin", m |-> 0, e |-> 0]
Fin(m, e) == [k |-> "fin", m |-> m, e |-> e]

IsNaN(a) == a.k = "nan"
IsInf(a) == a.k = "inf"
IsFin(a) == a.k = "fin"
IsZero(a) == a.k = "fin" /\ a.m = 0

\* n \div d rounded to the nearest integer, ties to the even one (n >= 0, d > 0)
RoundHalfEven(n, d) ==
    LET q == n \div d
        r == n % d
    IN  IF 2 * r < d THEN q
        ELSE IF 2 * r > d THEN q + 1
        ELSE IF q % 2 = 0 THEN q ELSE q + 1

RECURSIVE ScaleUp(_, _, _)
ScaleUp(n, d, x) ==
    IF n >= Pow2(MantBits - 1) * d THEN <<n, x>> ELSE ScaleUp(2 * n, d, x - 1)

RECURSIVE ScaleDown(_, _, _)
ScaleDown(n, d, x) ==
    IF n < Pow2(MantBits) * d THEN <<d, x>> ELSE ScaleDown(n, 2 * d, x + 1)

\* The float nearest to the exact value s * (n / d) * 2^e  (n >= 0, d > 0)
Round(s, n, d, e) ==
    IF n = 0 THEN Zero
    ELSE LET up == ScaleUp(n, d, 0)
             dn == ScaleDown(up[1], d, up[2])
             n1 == up[1]
             d1 == dn[1]
             E0 == e + dn[2]
             sh == IF E0 < MinExp THEN MinExp - E0 ELSE 0
             E  == E0 + sh
             mm == IF sh > MantBits + 1 THEN 0
                   ELSE RoundHalfEven(n1, d1 * Pow2(sh))
         IN  IF mm = 0 THEN Zero
             ELSE IF mm = Pow2(MantBits)
                  THEN (IF E + 1 > MaxExp THEN Inf(s)
                        ELSE Fin(s * Pow2(MantBits - 1), E + 1))
             ELSE IF E > MaxExp THEN Inf(s)
             ELSE Fin(s * mm, E)

FromInt(n) == Round(Sgn(n), Abs(n), 1, 0)
\* the float nearest to the rational n / d  (d > 0)
FromRat(n, d) == Round(Sgn(n), Abs(n), d, 0)

FMul(a, b) ==
    IF IsNaN(a) \/ IsNaN(b) THEN NaN
    ELSE IF IsInf(a) \/ IsInf(b)
         THEN (IF IsZero(a) \/ IsZero(b) THEN NaN ELSE Inf(Sgn(a.m) * Sgn(b.m)))
    ELSE Round(Sgn(a.m) * Sgn(b.m), Abs(a.m) * Abs(b.m), 1, a.e + b.e)

FDiv(a, b) ==
    IF IsNaN(a) \/ IsNaN(b) THEN NaN
    ELSE IF IsInf(a) THEN (IF IsInf(b) THEN NaN ELSE Inf(Sgn(a.m) * Sgn(b.m)))
    ELSE IF IsInf(b) THEN Zero
    ELSE IF IsZero(b) THEN (IF IsZero(a) THEN NaN ELSE Inf(Sgn(a.m)))
    ELSE Round(Sgn(a.m) * Sgn(b.m), Abs(a.m), Abs(b.m), a.e - b.e)

FAdd(a, b) ==
    IF IsNaN(a) \/ IsNaN(b) THEN NaN
    ELSE IF IsInf(a) THEN (IF IsInf(b) /\ a.m # b.m THEN NaN ELSE a)
    ELSE IF IsInf(b) THEN b
    ELSE IF a.m # 0 /\ a.e - b.e > MantBits + 1 THEN a
    ELSE IF b.m # 0 /\ b.e - a.e > MantBits + 1 THEN b
    ELSE LET e == Min2(a.e, b.e)
             n == a.m * Pow2(a.e - e) + b.m * Pow2(b.e - e)
         IN  Round(Sgn(n), Abs(n), 1, e)

\* |a| > |b| for finite a, b: the larger exponent wins, then the significand
MagGt(a, b) ==
    IF a.m = 0 THEN FALSE
    ELSE IF b.m = 0 THEN TRUE
    ELSE IF a.e # b.e THEN a.e > b.e
    ELSE Abs(a.m) > Abs(b.m)

\* a > b as the float comparison decides it (False when either is NaN)
FGt(a, b) ==
    IF IsNaN(a) \/ IsNaN(b) THEN FALSE
    ELSE IF IsInf(a) THEN a.m > 0 /\ a # b
    ELSE IF IsInf(b) THEN b.m < 0
    ELSE IF a.m >= 0 /\ b.m >= 0 THEN MagGt(a, b)
    ELSE IF a.m < 0 /\ b.m < 0 THEN MagGt(b, a)
    ELSE a.m >= 0

\* Python's truth value of a float: False exactly for zero
Truthy(a) == ~IsZero(a)

One == FromInt(1)
Half == FromRat(1, 2)

\* An integer-typed scalar: a numpy uint8 sample, a YAML integer
IntVal(n) == [k |-> "int", m |-> n, e |-> 0]
IsInt(v) == v.k = "int"

\* Python float(v) of a number v
ToFloat(v) == IF IsInt(v) THEN FromInt(v.m) ELSE v

\* numpy's elementwise  v > c  for an integer or floating sample v
NumGt(v, c) == FGt(ToFloat(v), c)

\* ------------------------------------------------------------------------
\* Region statistics (pipeline.py, mean_in_mask)
\* ------------------------------------------------------------------------
\* arr[mask > 0]: the samples of arr where the co-located mask sample is > 0
RECURSIVE BoolIndex(_, _, _)
BoolIndex(arr, mask, i) ==
    IF i > Len(arr) THEN <<>>
    ELSE IF NumGt(mask[i], Zero) THEN <<arr[i]>> \o BoolIndex(arr, mask, i + 1)
    ELSE BoolIndex(arr, mask, i + 1)

selected(arr, mask) == BoolIndex(arr, mask, 1)

\* numpy.nanmean: not-a-number samples are replaced by 0 in the sum and left
\* out of the count; the sum is divided by the count (0/0 is not-a-number)
RECURSIVE NanSum(_, _, _)
NanSum(vals, i, acc) ==
    IF i > Len(vals) THEN acc
    ELSE NanSum(vals, i + 1, FAdd(acc, IF IsNaN(vals[i]) THEN Zero ELSE vals[i]))

RECURSIVE NanCount(_, _)
NanCount(vals, i) ==
    IF i > Len(vals) THEN 0
    ELSE (IF IsNaN(vals[i]) THEN 0 ELSE 1) + NanCount(vals, i + 1)

\* mutant: not-a-number samples count as zeros
nanmean_as_zero(vals) == FDiv(NanSum(vals, 1, Zero), FromInt(Len(vals)))

nanmean(vals) == FDiv(NanSum(vals, 1, Zero), FromInt(NanCount(vals, 1)))

\* mutant: an empty selection averages to 0
mean_in_mask_zero(arr, mask) ==
    LET vals == selected(arr, mask)
    IN  IF Len(vals) = 0 THEN Zero ELSE nanmean(vals)

mean_in_mask(arr, mask) ==
    LET vals == selected(arr, mask)
    IN  IF Len(vals) = 0 THEN NaN ELSE nanmean(vals)

\* ------------------------------------------------------------------------
\* Ratio (pipeline.py, compute_suvr)
\* ------------------------------------------------------------------------
\* float(t/r) if r and not np.isnan(r) else float("nan")
\* mutant: a default ratio of 0 where the division is undefined
suvr_ratio_default(t, r) == IF Truthy(r) /\ ~IsNaN(r) THEN FDiv(t, r) ELSE Zero

\* mutant: the means divided the wrong way round
suvr_ratio_swapped(t, r) == IF Truthy(r) /\ ~IsNaN(r) THEN FDiv(r, t) ELSE NaN

suvr_ratio(t, r) == IF Truthy(r) /\ ~IsNaN(r) THEN FDiv(t, r) ELSE NaN

compute_suvr(data, tm, rm) ==
    LET t == mean_in_mask(data, tm)
        r == mean_in_mask(data, rm)
    IN  [suvr |-> suvr_ratio(t, r), t |-> t, r |-> r]

\* ------------------------------------------------------------------------
\* Calibration (pipeline.py, convert_to_scale)
\* ------------------------------------------------------------------------
\* str.lower() on the mode strings of the model
Lower(s) == CASE s = "Amyloid" -> "amyloid"
              [] s = "TAU" -> "tau"
              [] OTHER -> s

\* Python's None as the resolved key
NoKey == "<None>"

\* dict.get(key, default)
Get(d, key, default) == IF key \in DOMAIN d THEN d[key] ELSE default

\* mutant: the generic entry is preferred to the tracer's own
convert_to_scale_generic_first(r, tr, md, cal) ==
    LET lmode == Lower(md)
    IN  IF lmode \notin DOMAIN cal THEN r
        ELSE LET table == cal[lmode]
                 key == IF "generic" \in DOMAIN table THEN "generic"
                        ELSE IF tr \in DOMAIN table THEN tr
                        ELSE NoKey
             IN  IF key = NoKey THEN r
                 ELSE LET slope == ToFloat(Get(table[key], "slope", One))
                          intercept == ToFloat(Get(table[key], "intercept", Zero))
                      IN  FAdd(FMul(slope, r), intercept)

\* mutant: a lookup miss gives 0 instead of the ratio
convert_to_scale_miss_zero(r, tr, md, cal) ==
    LET lmode == Lower(md)
    IN  IF lmode \notin DOMAIN cal THEN Zero
        ELSE LET table == cal[lmode]
                 key == IF tr \in DOMAIN table THEN tr
                        ELSE IF "generic" \in DOMAIN table THEN "generic"
                        ELSE NoKey
             IN  IF key = NoKey THEN Zero
                 ELSE LET slope == ToFloat(Get(table[key], "slope", One))
                          intercept == ToFloat(Get(table[key], "intercept", Zero))
                      IN  FAdd(FMul(slope, r), intercept)

\* mutant: slope and intercept read from each other's field
convert_to_scale_swapped(r, tr, md, cal) ==
    LET lmode == Lower(md)
    IN  IF lmode \notin DOMAIN cal THEN r
        ELSE LET table == cal[lmode]
                 key == IF tr \in DOMAIN table THEN tr
                        ELSE IF "generic" \in DOMAIN table THEN "generic"
                        ELSE NoKey
             IN  IF key = NoKey THEN r
                 ELSE LET slope == ToFloat(Get(table[key], "intercept", One))
                          intercept == ToFloat(Get(table[key], "slope", Zero))
                      IN  FAdd(FMul(slope, r), intercept)

\* mutant: the intercept added before the slope is applied
convert_to_scale_precedence(r, tr, md, cal) ==
    LET lmode == Lower(md)
    IN  IF lmode \notin DOMAIN cal THEN r
        ELSE LET table == cal[lmode]
                 key == IF tr \in DOMAIN table THEN tr
                        ELSE IF "generic" \in DOMAIN table THEN "generic"
                        ELSE NoKey
             IN  IF key = NoKey THEN r
                 ELSE LET slope == ToFloat(Get(table[key], "slope", One))
                          intercept == ToFloat(Get(table[key], "intercept", Zero))
                      IN  FMul(slope, FAdd(r, intercept))

\* mutant: a missing slope defaults to 0.0
convert_to_scale_default_zero(r, tr, md, cal) ==
    LET lmode == Lower(md)
    IN  IF lmode \notin DOMAIN cal THEN r
        ELSE LET table == cal[lmode]
                 key == IF tr \in DOMAIN table THEN tr
                        ELSE IF "generic" \in DOMAIN table THEN "generic"
                        ELSE NoKey
             IN  IF key = NoKey THEN r
                 ELSE LET slope == ToFloat(Get(table[key], "slope", Zero))
                          intercept == ToFloat(Get(table[key], "intercept", Zero))
                      IN  FAdd(FMul(slope, r), intercept)

convert_to_scale(r, tr, md, cal) ==
    LET lmode == Lower(md)
    IN  IF lmode \notin DOMAIN cal THEN r
        ELSE LET table == cal[lmode]
                 key == IF tr \in DOMAIN table THEN tr
                        ELSE IF "generic" \in DOMAIN table THEN "generic"
                        ELSE NoKey
             IN  IF key = NoKey THEN r
                 ELSE LET slope == ToFloat(Get(table[key], "slope", One))
                          intercept == ToFloat(Get(table[key], "intercept", Zero))
                      IN  FAdd(FMul(slope, r), intercept)

\* mutant: a mode missing from the table is stored with an identity entry
calibs_after_storing_default(r, tr, md, cal) ==
    LET lmode == Lower(md)
    IN  IF lmode \in DOMAIN cal THEN cal
        ELSE [m \in DOMAIN cal \cup {lmode} |->
                 IF m = lmode THEN [k \in {tr} |-> [slope |-> One, intercept |-> Zero]]
                 ELSE cal[m]]

\* the table after convert_to_scale returned: the function reads it with
\* `in`, indexing and .get (lines 250-255) and assigns to no part of it
calibs_after(r, tr, md, cal) == cal

\* ------------------------------------------------------------------------
\* Mask transfer (pipeline.py, resample_mask_to_target)
\* ------------------------------------------------------------------------
\* nilearn resample_to_img(..., interpolation="nearest"): every sample of the
\* target grid takes the value of the nearest source sample, or 0 where it
\* falls outside the source; grid[i] is that source index, 0 for outside
resample_nearest(data, g) ==
    [i \in 1..Len(g) |-> IF g[i] = 0 THEN Zero ELSE ToFloat(data[g[i]])]

\* mutant: the resampled samples are cast without the threshold
resample_mask_to_target_no_threshold(mask_data, g) == resample_nearest(mask_data, g)

\* (data > 0.5).astype(np.uint8)
resample_mask_to_target(mask_data, g) ==
    LET data == resample_nearest(mask_data, g)
    IN  [i \in 1..Len(data) |-> IF NumGt(data[i], Half) THEN IntVal(1) ELSE IntVal(0)]

\* ------------------------------------------------------------------------
\* Registration (pipeline.py, pet_to_template_registration)
\* ------------------------------------------------------------------------
\* The SimpleITK calls are modelled by their documented contract: a
\* gradient-descent optimizer iterates until it converges or its iteration
\* counter reaches numberOfIterations, and Execute returns the transform it
\* stopped at.  Volumes are one-dimensional rows of samples and a transform
\* is a translation, in quarters of a sample spacing.

\* numberOfIterations of the three SetOptimizerAsGradientDescent calls
RigidIterations == 150
AffineIterations == 200
RigidOnlyIterations == 200

\* the transform variables before they are assigned
NoTransform == [kind |-> "none", shift |-> 0]

\* mutant: the initializer returns the default (identity) Euler transform
CenteredTransformInitializer_identity(fx, mv) == [kind |-> "euler", shift |-> 0]

\* sitk.CenteredTransformInitializer(fixed_f, moving_f, sitk.Euler3DTransform(),
\* GEOMETRY): the translation that puts the centre of the fixed grid (fx
\* samples) on the centre of the moving volume
CenteredTransformInitializer(fx, mv) ==
    [kind |-> "euler", shift |-> 2 * (Len(mv) - fx)]

\* sitk.AffineTransform(fixed.GetDimension()): the identity
AffineIdentity == [kind |-> "affine", shift |-> 0]

\* sitk.AffineTransform(t): an affine transform with t's parameters
AffineTransform(t) == [kind |-> "affine", shift |-> t.shift]

\* the initial transform before any optimization (tx, lines 184-187)
InitialTx(md, fx, mv) ==
    IF md = "affine" THEN AffineIdentity ELSE CenteredTransformInitializer(fx, mv)

\* the registration methods whose Execute the function calls: "rigid" is the
\* pre-alignment of the affine branch, "reg" the final optimization
OptimizationStages(md) == IF md = "affine" THEN {"rigid", "reg"} ELSE {"reg"}

\* numberOfIterations of a method
numberOfIterations(md, method) ==
    IF method = "rigid" THEN RigidIterations
    ELSE IF md = "affine" THEN AffineIterations ELSE RigidOnlyIterations

\* mutant: an optimizer without an iteration cap
CanIterate_uncapped(n, cap) == TRUE

\* the optimizer takes another iteration only below numberOfIterations
CanIterate(n, cap) == n < cap

\* mutant: the affine optimization keeps the identity of line 199
RegInitialTransform_identity(md, t, txr) == IF md = "affine" THEN AffineIdentity ELSE t

\* the initial transform of reg: AffineTransform(tx_rigid) in the affine
\* branch (line 211, which replaces the one set at line 199), tx otherwise
RegInitialTransform(md, t, txr) == IF md = "affine" THEN AffineTransform(txr) ELSE t

\* mutant: an optimization that reached its iteration cap is run again
AfterStop_retry(method, reason) ==
    IF reason = "max_iterations" THEN (IF method = "rigid" THEN "rigid_start" ELSE "reg_start")
    ELSE IF method = "rigid" THEN "reg_start" ELSE "resample"

\* where the function continues when a method's Execute returns: the stop
\* condition is not inspected
AfterStop(method, reason) == IF method = "rigid" THEN "reg_start" ELSE "resample"

\* sample position p (quarters of a spacing; sample k of the volume sits at
\* 4k) lies inside the buffer of a volume of n samples
InsideBuffer(p, n) == p >= 2 /\ p < 4 * n + 2

Clamp(k, n) == IF k < 1 THEN 1 ELSE IF k > n THEN n ELSE k

\* linear interpolation of the volume at position p, neighbours clamped to
\* the volume
LinearInterpolate(mv, p) ==
    LET k == p \div 4
        d == p % 4
        a == mv[Clamp(k, Len(mv))]
        b == mv[Clamp(k + 1, Len(mv))]
    IN  IF d = 0 THEN a
        ELSE FAdd(FMul(FromRat(4 - d, 4), a), FMul(FromRat(d, 4), b))

\* mutant: nearest-neighbour interpolation
Resample_nearest(mv, fx, t) ==
    [i \in 1..fx |->
        IF InsideBuffer(4 * i + t.shift, Len(mv))
        THEN mv[Clamp((4 * i + t.shift + 2) \div 4, Len(mv))]
        ELSE Zero]

\* sitk.Resample(moving, fixed, final_tx, sitk.sitkLinear, 0.0, sitk.sitkFloat32):
\* one sample per sample of the fixed grid, taken from the moving volume at
\* the transformed position, the default value 0.0 outside the buffer
Resample(mv, fx, t) ==
    [i \in 1..fx |->
        IF InsideBuffer(4 * i + t.shift, Len(mv))
        THEN LinearInterpolate(mv, 4 * i + t.shift)
        ELSE Zero]

\* ------------------------------------------------------------------------
\* The run (pipeline.py, main)
\* ------------------------------------------------------------------------
\* mutant: a parser without the choices of --reg-mode
AcceptsRegMode_any(m) == TRUE

\* ap.add_argument("--reg-mode", choices=["rigid","affine"], ...): parse_args
\* exits with a usage error on any other value
AcceptsRegMode(m) == m \in {"rigid", "affine"}

\* mutant: a format that has no text for undefined and infinite values
Format6g_finite(v) == IF IsFin(v) THEN "number" ELSE "ValueError"

\* f"{v:.6g}" of _compose_qc_pdf: every float has a text
Format6g(v) ==
    IF IsNaN(v) THEN "nan" ELSE IF IsInf(v) THEN "inf" ELSE "number"

\* ------------------------------------------------------------------------
\* XNAT upload (xnat_upload.py)
\* ------------------------------------------------------------------------
\* Python's None
None == "<None>"

\* truth value of an optional string
TruthyStr(x) == x # None /\ x # ""

\* a or b
Or(a, b) == IF TruthyStr(a) THEN a ELSE b

\* an except clause list catches an exception of the kind: by its own
\* class, or by Exception, the base class of every kind raised here
Caught(kind, handlers) == kind \in handlers \/ "Exception" \in handlers

\* _extract_assessment_id: result.get("ID") or result.get("id") of a JSON
\* body, the ID attribute of the root of an XML body; when either raises
\* (a body that does not parse, a JSON value without .get), the first match
\* of the regular expression in the text, or None
extract_assessment_id(resp) ==
    IF resp.body = "parsed"
    THEN IF resp.ctype = "json" THEN Or(resp.ID, resp.id) ELSE resp.ID
    ELSE resp.regex

\* mutant: the response is used without raise_for_status
create_assessment_try_no_status_check(data, resp) ==
    IF data = "bad_shape" THEN [raised |-> "Exception", value |-> None]
    ELSE IF resp.status = "connection_error"
    THEN [raised |-> "RequestException", value |-> None]
    ELSE LET aid == extract_assessment_id(resp)
         IN  [raised |-> "", value |-> IF TruthyStr(aid) THEN aid ELSE None]

\* the try block of create_assessment (lines 84-123): what it returns, or the
\* exception it raises: _create_centiloid_xml on results of an unexpected
\* shape, session.post on a failed request, raise_for_status on an error
\* status
create_assessment_try(data, resp) ==
    IF data = "bad_shape" THEN [raised |-> "Exception", value |-> None]
    ELSE IF resp.status = "connection_error"
    THEN [raised |-> "RequestException", value |-> None]
    ELSE IF resp.status = "http_error"
    THEN [raised |-> "RequestException", value |-> None]
    ELSE LET aid == extract_assessment_id(resp)
         IN  [raised |-> "", value |-> IF TruthyStr(aid) THEN aid ELSE None]

\* the except clauses of create_assessment (lines 125 and 132)
CreateHandlers == {"RequestException", "Exception"}

\* mutant: the connection test fails
test_connection_fails == FALSE

\* XNATUploader.test_connection (lines 67-71): no request, always True
test_connection == TRUE

\* mutant: the files are uploaded without creating the assessment
AfterConnectionTest_upload == "upload_begin"

\* upload_to_xnat, lines 475-477: after the connection test comes
\* create_assessment
AfterConnectionTest == "create"

\* the requests upload_to_xnat sends: the POST of create_assessment (line
\* 107) and the POST of _upload_single_file (line 203)
CreateRequest == [kind |-> "create", file |-> ""]
UploadRequest(f) == [kind |-> "upload", file |-> f]

\* mutant: the upload goes on whatever create_assessment returned
AssessmentCreated_always(aid) == TRUE

\* if not assessment_id: return False (line 478)
AssessmentCreated(aid) == TruthyStr(aid)

\* the results file: what open and json.load do with it
LoadResults(file) ==
    IF file = "missing" THEN [raised |-> "", value |-> "return False"]
    ELSE IF file = "vanished" THEN [raised |-> "FileNotFoundError", value |-> ""]
    ELSE IF file = "unreadable" THEN [raised |-> "PermissionError", value |-> ""]
    ELSE IF file = "invalid_json" THEN [raised |-> "JSONDecodeError", value |-> ""]
    ELSE [raised |-> "", value |-> file]

\* the except clauses of upload_to_xnat (lines 495, 498, 501)
UploadHandlers == {"FileNotFoundError", "JSONDecodeError", "Exception"}

\* the four files upload_files always lists, and the DICOM objects main
\* writes into dicom_series
StandardFiles == <<"centiloid.json", "centiloid.csv", "qc_overlay.png", "qc_report.pdf">>
DicomFiles == {"dicom_series/QC_Report.pdf.dcm", "dicom_series/QC_Report_SC.dcm"}

Range(q) == {q[i] : i \in 1..Len(q)}

\* the orders in which glob may list a set of files
Orders(S) ==
    {q \in [1..Cardinality(S) -> S] : \A i, j \in 1..Cardinality(S) : q[i] = q[j] => i = j}

\* ------------------------------------------------------------------------
\* The run: result records and the upload decision (pipeline.py, main)
\* ------------------------------------------------------------------------
\* the four metrics of a run
Metrics == {"target_mean", "reference_mean", "suvr_global_cortex_over_ref",
            "scaled_value"}

\* mutant: every value is labelled Centiloid
scaled_units_centiloid(md) == "Centiloid"

\* the units label of lines 630 and 642
scaled_units(md) == IF md = "amyloid" THEN "Centiloid" ELSE "CenTauR (experimental)"

\* mutant: the record is built with its "outputs" entry
ResultRecord_with_outputs(tm, rm, sv, sc, md) ==
    [target_mean |-> tm, reference_mean |-> rm, suvr_global_cortex_over_ref |-> sv,
     scaled_value |-> sc, scaled_units |-> scaled_units(md),
     outputs |-> "dicom_series"]

\* out_json as built at lines 609-632: its metrics (the inputs and
\* intermediate sections hold names only)
ResultRecord(tm, rm, sv, sc, md) ==
    [target_mean |-> tm, reference_mean |-> rm, suvr_global_cortex_over_ref |-> sv,
     scaled_value |-> sc, scaled_units |-> scaled_units(md)]

\* DataFrame.to_csv: a not-a-number cell is written as the empty string, any
\* other number by its shortest round-trip text
CsvCell(v) == IF IsNaN(v) THEN "" ELSE v

\* the row of lines 635-643
CsvRow(tr, md, tm, rm, sv, sc) ==
    [tracer |-> tr, mode |-> md, target_mean |-> CsvCell(tm),
     reference_mean |-> CsvCell(rm), suvr |-> CsvCell(sv),
     scaled_value |-> CsvCell(sc), scaled_units |-> scaled_units(md)]

\* out_json[key] = val
WithEntry(rec, key, val) ==
    [f \in DOMAIN rec \cup {key} |-> IF f = key THEN val ELSE rec[f]]

\* mutant: the registration's input volume is loaded instead of its result
LoadRegisteredPet_input(r, mv) == mv

\* pet_img = nib.load(pet_reg) (line 595), pet_reg being the first path
\* pet_to_template_registration returned (line 592)
LoadRegisteredPet(r, mv) == r.reg_pet

\* mutant: --skip-xnat-upload is ignored
XnatUploadRequested_ignoring_skip(a) ==
    /\ TruthyStr(a.xnat_host) /\ TruthyStr(a.xnat_user) /\ TruthyStr(a.xnat_pass)
    /\ TruthyStr(a.xnat_project) /\ TruthyStr(a.xnat_session)

\* the condition of lines 682-684
XnatUploadRequested(a) ==
    /\ TruthyStr(a.xnat_host) /\ TruthyStr(a.xnat_user) /\ TruthyStr(a.xnat_pass)
    /\ TruthyStr(a.xnat_project) /\ TruthyStr(a.xnat_session)
    /\ ~a.skip_xnat_upload

\* how the try block of lines 688-724 ends: upload_to_xnat returned True or
\* False, the import failed, or anything else raised
UploadOutcomes == {"True", "False", "ImportError", "Exception"}

\* ------------------------------------------------------------------------
\* DICOM conversion (pipeline.py, run and dcm2niix_convert)
\* ------------------------------------------------------------------------
\* the extension of a file name of the model
Ext(n) == IF n \in {"s1.nii", "s2.nii"} THEN "nii" ELSE "nii.gz"

\* glob.glob(os.path.join(out_dir, "*." + ext))
Glob(dir, ext) == {n \in DOMAIN dir : Ext(n) = ext}

\* lines 140-142: the compressed files, the uncompressed ones when there is
\* no compressed file
NiiFiles(dir) ==
    IF Glob(dir, "nii.gz") # {} THEN Glob(dir, "nii.gz") ELSE Glob(dir, "nii")

\* lines 148-149: the files that may come first when the list is sorted by
\* size, largest first (the sort keeps files of equal size in glob's order)
FirstBySize(dir, S) == {n \in S : \A m \in S : dir[n].size >= dir[m].size}

\* os.rename(src, dst): dst is replaced when it exists
Rename(dir, src, dst) ==
    [n \in (DOMAIN dir \ {src}) \cup {dst} |-> IF n = dst THEN dir[src] ELSE dir[n]]

\* os.path.join(out_dir, "pet.nii.gz")
PetOutput == "pet.nii.gz"

\* ------------------------------------------------------------------------
\* State
\* ------------------------------------------------------------------------
VARIABLES
    pc,         \* position of the run
    pet_data,   \* samples of the (registered) PET volume
    tmask,      \* target mask on the PET grid
    rmask,      \* reference mask on the PET grid
    tmean,      \* mean_in_mask(pet_data, tmask)
    rmean,      \* mean_in_mask(pet_data, rmask)
    suvr,       \* the ratio
    tracer,     \* --tracer
    mode,       \* --mode
    calibs,     \* the calibration table read from --calib-yaml
    scaled,     \* convert_to_scale's result
    mask_file,  \* samples of a mask volume in storage
    grid,       \* per sample of the target grid, the nearest sample of mask_file
    \* pet_to_template_registration
    reg_mode,   \* mode / --reg-mode
    moving,     \* samples of the moving (PET) volume
    fixed,      \* number of samples of the fixed (template) grid
    tx,         \* the initial transform handed to reg
    it,         \* iteration counter of the optimizer that is executing
    stop,       \* per registration method, why its optimizer stopped
    execs,      \* per registration method, the number of Execute calls
    tx_rigid,   \* rigid.Execute's result
    final_tx,   \* reg.Execute's result
    resampled,  \* sitk.Resample's result
    returned,   \* what pet_to_template_registration saved and returned
    \* main
    args,       \* the parsed command line and the state of the input files
    did,        \* the steps of main that have run, in order
    files,      \* the files written below --out-dir
    out_json,   \* the result record
    err,        \* the exception that ended the run, "" for none
    \* upload_to_xnat
    results_file,   \* state of the file at results_json_path
    out_files,      \* the files present in output_dir
    server,         \* how the XNAT server answers the requests of this call
    assessment_id,  \* create_assessment's result
    todo,           \* files_to_upload not yet visited by upload_files' loop
    success_count,  \* upload_files' success_count
    total_files,    \* upload_files' total_files
    sent,           \* per file handed to _upload_single_file, its result
    upload_ret,     \* upload_files' return value
    ret,            \* upload_to_xnat's return value
    requests,       \* the requests sent to the XNAT server, in order
    \* pet_to_template_registration, line 208
    rigid_tx,   \* the initial transform handed to rigid
    \* dcm2niix_convert
    returncode, \* exit status of the converter
    out_dir,    \* the NIfTI files of out_dir: per name, size and data
    pet_output, \* dcm2niix_convert's return value
    \* files read and written by main
    calib_yaml, \* the table as yaml.safe_load returned it
    json_file,  \* the record stored in centiloid.json
    csv_file,   \* the row stored in centiloid.csv
    writes      \* per result file, how many times it was written

coreVars == <<pet_data, tmask, rmask, tmean, rmean, suvr, tracer, mode, calibs,
              scaled, mask_file, grid>>
regVars == <<reg_mode, moving, fixed, tx, it, stop, execs, tx_rigid, final_tx,
             resampled, returned>>
mainVars == <<args, did, files, out_json, err>>
mainVarsButDid == <<args, files, out_json, err>>
xnatVars == <<results_file, out_files, server, assessment_id, todo,
              success_count, total_files, sent, upload_ret, ret>>

dcmVars == <<returncode, out_dir, pet_output>>
fileVars == <<calib_yaml, json_file, csv_file, writes>>

vars == <<pc, coreVars, regVars, mainVars, xnatVars, requests, rigid_tx, dcmVars,
          fileVars>>

\* ------------------------------------------------------------------------
\* Input domains
\* ------------------------------------------------------------------------
Arr(S, n) == [1..n -> S]

\* PET samples: undefined, infinite, zero, positive and negative activity
PetVals == {NaN, PInf, Zero, FromInt(1000), FromInt(1800), FromInt(0 - 1000)}

\* samples of an arbitrary mask volume
MaskVals == {Zero, One, FromRat(2, 5), FromInt(2), FromInt(0 - 1), NaN}

\* a mask as resample_mask_to_target returns it
BinVals == {IntVal(0), IntVal(1)}

Tracers == {"FBP", "XYZ", "generic"}
Modes == {"amyloid", "tau", "Amyloid"}

EmptyDict == [x \in {} |-> Zero]

\* calibration entries: YAML integers or floats, either field may be missing
EntryA == [slope |-> IntVal(2), intercept |-> IntVal(1)]
EntryB == [slope |-> IntVal(100), intercept |-> IntVal(0 - 100)]
EntryId == [slope |-> One, intercept |-> Zero]
EntryS == [slope |-> FromRat(5, 2)]
EntryI == [intercept |-> IntVal(3)]
Entries == {EntryA, EntryB, EntryId, EntryS, EntryI, EmptyDict}
FewEntries == {EntryA, EntryB}

SubTablesOf(E) ==
    UNION {[ks -> E] : ks \in SUBSET {"FBP", "generic"}}

Calibs ==
    {[md \in {} |-> EmptyDict]}
    \cup {[md \in {"amyloid"} |-> st] : st \in SubTablesOf(Entries)}
    \cup {[md \in {"tau"} |-> st] : st \in SubTablesOf(FewEntries)}
    \cup {[md \in {"amyloid", "tau"} |-> IF md = "amyloid" THEN p[1] ELSE p[2]] :
             p \in SubTablesOf(FewEntries) \X SubTablesOf(FewEntries)}

\* the tables of the runs that start from a volume: one per lookup outcome
\* (no mode, empty sub-table, tracer key with each entry, generic key)
FewCalibs ==
    {[md \in {} |-> EmptyDict],
     [md \in {"tau"} |-> [ks \in {"FBP"} |-> EntryB]],
     [md \in {"amyloid"} |-> [ks \in {} |-> EmptyDict]],
     [md \in {"amyloid"} |-> [ks \in {"generic"} |-> EntryA]]}
    \cup {[md \in {"amyloid"} |-> [ks \in {"FBP"} |-> en]] : en \in Entries}

\* ratios handed to convert_to_scale
SuvrVals == {NaN, PInf, Zero, One, FDiv(FromInt(1800), FromInt(1000)),
             FromRat(0 - 9, 5), FromRat(1, 3), FromInt(3)}

\* constants a volume may be rescaled by
ScaleConsts == {FromInt(2), FromInt(3), FromInt(10), FromRat(1, 10), FromRat(1, 4)}

\* the values of the variables a specification does not use
NoRegion == pet_data = <<>> /\ tmask = <<>> /\ rmask = <<>>
NoMeans == tmean = NaN /\ rmean = NaN
NoCalib == tracer = "" /\ mode = "" /\ calibs = EmptyDict /\ scaled = NaN
NoMaskFile == mask_file = <<>> /\ grid = <<>>
NoCore == NoRegion /\ NoMeans /\ NoCalib /\ NoMaskFile /\ suvr = NaN

\* the two registration methods of pet_to_template_registration
Methods == {"rigid", "reg"}
NoStop == [m \in Methods |-> ""]
NoExecs == [m \in Methods |-> 0]
NoReturn == [reg_pet |-> <<>>, xfm |-> NoTransform]
NoReg ==
    /\ reg_mode = "" /\ moving = <<>> /\ fixed = 0 /\ tx = NoTransform /\ it = 0
    /\ stop = NoStop /\ execs = NoExecs /\ tx_rigid = NoTransform
    /\ final_tx = NoTransform /\ resampled = <<>> /\ returned = NoReturn

NoArgs == [reg_mode |-> ""]
NoJson == [x \in {} |-> NaN]
NoMain == args = NoArgs /\ did = <<>> /\ files = {} /\ out_json = NoJson /\ err = ""

\* command lines: the PET input is a DICOM directory or a NIfTI file, the
\* template and the two mask files exist or not, --reg-mode is any word, the
\* five XNAT options are all given or all left out
ArgSets ==
    {a \in [dicom_dir : BOOLEAN, reg_mode : {"rigid", "affine", "bspline"},
             template_ok : BOOLEAN, target_mask_ok : BOOLEAN, ref_mask_ok : BOOLEAN,
             xnat_host : {None, "v"}, xnat_user : {None, "v"}, xnat_pass : {None, "v"},
             xnat_project : {None, "v"}, xnat_session : {None, "v"},
             skip_xnat_upload : {FALSE}] :
        {a.xnat_user, a.xnat_pass, a.xnat_project, a.xnat_session} = {a.xnat_host}}

\* an XNAT option: left out, given empty, given
OptionVals == {None, "", "v"}

\* command lines with every combination of the XNAT options
XnatArgSets ==
    [dicom_dir : {FALSE}, reg_mode : {"rigid"},
     template_ok : {TRUE}, target_mask_ok : {TRUE}, ref_mask_ok : {TRUE},
     xnat_host : OptionVals, xnat_user : OptionVals, xnat_pass : OptionVals,
     xnat_project : OptionVals, xnat_session : OptionVals,
     skip_xnat_upload : BOOLEAN]

\* PET volumes of a run: ordinary, all zero, partly undefined
MainVolumes ==
    {[i \in 1..NVox |-> IF i = 1 THEN FromInt(1800) ELSE FromInt(1000)],
     [i \in 1..NVox |-> Zero],
     [i \in 1..NVox |-> IF i = 1 THEN NaN ELSE FromInt(1000)]}

\* samples of the mask files of a run
MaskFileVals == {Zero, One}

\* the calibration tables of a run: empty, or an amyloid entry for the tracer
MainCalibs ==
    {[md \in {} |-> EmptyDict],
     [md \in {"amyloid"} |-> [ks \in {"FBP"} |-> EntryB]]}

NoServer == [x \in {} |-> ""]
NoXnat ==
    /\ results_file = "" /\ out_files = {} /\ server = NoServer
    /\ assessment_id = None /\ todo = <<>> /\ success_count = 0 /\ total_files = 0
    /\ sent = <<>> /\ upload_ret = FALSE /\ ret = FALSE

\* the result files of main
ResultFiles == {"centiloid.json", "centiloid.csv"}
NoDir == [x \in {} |-> 0]
NoDcm == returncode = 0 /\ out_dir = NoDir /\ pet_output = ""
NoFiles ==
    /\ calib_yaml = EmptyDict /\ json_file = NoJson /\ csv_file = NoJson
    /\ writes = [f \in ResultFiles |-> 0]

\* sizes of NIfTI files
Sizes == {1, 2, 3}

\* the names the converter gives its files (one per series, never pet.nii.gz)
SeriesNames == {"s1.nii.gz", "s2.nii.gz", "s1.nii"}

\* out_dir when dcm2niix_convert is called (os.makedirs(..., exist_ok=True)):
\* empty, or holding the pet.nii.gz an earlier conversion left
EarlierDirs ==
    {NoDir}
    \cup {[n \in {PetOutput} |-> [size |-> sz, run |-> "earlier", name |-> "s1.nii.gz"]] :
             sz \in Sizes}

\* the files one conversion writes: any of the series names, of any size
ProducedDirs ==
    UNION {[ns -> [size : Sizes, run : {"this"}, name : ns]] : ns \in SUBSET SeriesNames}

\* the state of the file at results_json_path: absent, removed between the
\* existence test and open, unreadable, not JSON, JSON of another shape than
\* main writes, or main's record
ResultsFiles == {"missing", "vanished", "unreadable", "invalid_json", "bad_shape", "ok"}

\* answers of the XNAT server to the request of create_assessment
ConnectionError ==
    [status |-> "connection_error", ctype |-> "", body |-> "", ID |-> None,
     id |-> None, regex |-> None]
Responses ==
    {ConnectionError}
    \cup {r \in [status : {"ok", "http_error"}, ctype : {"json", "other"},
                 body : {"parsed", "wrong_type", "unparsable"},
                 ID : {None, "", "A1"}, id : {None, "a2"}, regex : {None, "R3"}] :
             r.ctype = "other" => r.body # "wrong_type"}
FewResponses ==
    {ConnectionError,
     [status |-> "ok", ctype |-> "json", body |-> "parsed", ID |-> "A1", id |-> None,
      regex |-> None],
     [status |-> "ok", ctype |-> "other", body |-> "unparsable", ID |-> None,
      id |-> None, regex |-> None],
     [status |-> "http_error", ctype |-> "json", body |-> "parsed", ID |-> "A1",
      id |-> None, regex |-> "R3"]}

\* the contents of the output directory
OutputDirs == SUBSET (Range(StandardFiles) \cup DicomFiles)

\* volumes handed to the registration
RegVolumes == {<<FromInt(1000), FromInt(1800)>>, <<FromInt(4)>>}

\* translations an optimization may stop at
FoundShifts == {0 - 1, 0, 4}

\* samples of a moving volume, and the translations it is resampled through
MovingVals == {Zero, FromInt(4), FromInt(1000), FromInt(0 - 8)}
Shifts == {0 - 5, 0 - 4, 0 - 1, 0, 1, 3, 4}
Transforms == [kind : {"euler", "affine"}, shift : Shifts]

\* ------------------------------------------------------------------------
\* Operations
\* ------------------------------------------------------------------------
\* mean_in_mask applied to a volume and a mask of its grid
MeanInMask ==
    /\ pc = "region"
    /\ tmean' = mean_in_mask(pet_data, tmask)
    /\ pc' = "region_done"
    /\ UNCHANGED <<dcmVars, fileVars, rigid_tx, requests>>
    /\ UNCHANGED <<regVars, mainVars, xnatVars>>
    /\ UNCHANGED <<pet_data, tmask, rmask, rmean, suvr, tracer, mode, calibs,
                   scaled, mask_file, grid>>

\* main, step 4: suvr, tmean, rmean = compute_suvr(pet_img, pet_data, tmask, rmask)
ComputeSuvr ==
    /\ pc = "suvr"
    /\ LET res == compute_suvr(pet_data, tmask, rmask)
       IN  /\ suvr' = res.suvr
           /\ tmean' = res.t
           /\ rmean' = res.r
    /\ did' = Append(did, "suvr")
    /\ pc' = "calib"
    /\ UNCHANGED <<dcmVars, fileVars, rigid_tx, requests>>
    /\ UNCHANGED <<regVars, mainVarsButDid, xnatVars>>
    /\ UNCHANGED <<pet_data, tmask, rmask, tracer, mode, calibs, scaled,
                   mask_file, grid>>

\* main, step 5: the calibration table is read and the ratio converted
ConvertToScale(tables) ==
    /\ pc = "calib"
    /\ \E c \in tables :
          /\ calib_yaml' = c
          /\ calibs' = calibs_after(suvr, tracer, mode, c)
          /\ scaled' = convert_to_scale(suvr, tracer, mode, c)
    /\ did' = Append(did, "calibration")
    /\ pc' = "done"
    /\ UNCHANGED <<dcmVars, json_file, csv_file, writes, rigid_tx, requests>>
    /\ UNCHANGED <<regVars, mainVarsButDid, xnatVars>>
    /\ UNCHANGED <<pet_data, tmask, rmask, tmean, rmean, suvr, tracer, mode,
                   mask_file, grid>>

\* resample_mask_to_target applied to the stored mask and a target grid
ResampleMask ==
    /\ pc = "mask"
    /\ \E n \in 1..NVox :
          \E g \in [1..n -> 0..Len(mask_file)] :
             /\ grid' = g
             /\ tmask' = resample_mask_to_target(mask_file, g)
    /\ pc' = "mask_done"
    /\ UNCHANGED <<dcmVars, fileVars, rigid_tx, requests>>
    /\ UNCHANGED <<regVars, mainVars, xnatVars>>
    /\ UNCHANGED <<pet_data, rmask, tmean, rmean, suvr, tracer, mode, calibs,
                   scaled, mask_file>>

\* the resampled mask is stored, to be resampled again (to another grid, or back)
StoreMask ==
    /\ pc = "mask_done"
    /\ mask_file' = tmask
    /\ pc' = "mask"
    /\ UNCHANGED <<dcmVars, fileVars, rigid_tx, requests>>
    /\ UNCHANGED <<regVars, mainVars, xnatVars>>
    /\ UNCHANGED <<pet_data, tmask, rmask, tmean, rmean, suvr, tracer, mode,
                   calibs, scaled, grid>>

\* pet_to_template_registration, lines 168-187: the volumes are loaded and
\* the initial transform tx is built
LoadVolumes ==
    /\ pc = "reg_load"
    /\ \E mv \in RegVolumes :
          \E fx \in 1..NVox :
             /\ moving' = mv
             /\ fixed' = fx
             /\ tx' = InitialTx(reg_mode, fx, mv)
    /\ pc' = IF "rigid" \in OptimizationStages(reg_mode) THEN "rigid_start" ELSE "reg_start"
    /\ UNCHANGED <<dcmVars, fileVars, rigid_tx, requests>>
    /\ UNCHANGED <<coreVars, mainVars, xnatVars>>
    /\ UNCHANGED <<reg_mode, it, stop, execs, tx_rigid, final_tx, resampled, returned>>

\* lines 201-210: the rigid pre-alignment is configured and rigid.Execute begins
StartRigid ==
    /\ pc = "rigid_start"
    /\ rigid_tx' = CenteredTransformInitializer(fixed, moving)
    /\ it' = 0
    /\ execs' = [execs EXCEPT !["rigid"] = @ + 1]
    /\ pc' = "rigid_exec"
    /\ UNCHANGED <<dcmVars, fileVars, requests>>
    /\ UNCHANGED <<coreVars, mainVars, xnatVars>>
    /\ UNCHANGED <<reg_mode, moving, fixed, tx, stop, tx_rigid, final_tx, resampled,
                   returned>>

\* lines 196-199 and 211, or 213-215, and 217: reg is configured, takes its
\* initial transform and reg.Execute begins
StartReg ==
    /\ pc = "reg_start"
    /\ tx' = RegInitialTransform(reg_mode, tx, tx_rigid)
    /\ it' = 0
    /\ execs' = [execs EXCEPT !["reg"] = @ + 1]
    /\ pc' = "reg_exec"
    /\ UNCHANGED <<dcmVars, fileVars, rigid_tx, requests>>
    /\ UNCHANGED <<coreVars, mainVars, xnatVars>>
    /\ UNCHANGED <<reg_mode, moving, fixed, stop, tx_rigid, final_tx, resampled,
                   returned>>

\* one iteration of the optimizer of the method that is executing
Iterate(method) ==
    /\ pc = IF method = "rigid" THEN "rigid_exec" ELSE "reg_exec"
    /\ CanIterate(it, numberOfIterations(reg_mode, method))
    /\ it' = it + 1
    /\ UNCHANGED <<dcmVars, fileVars, rigid_tx, requests>>
    /\ UNCHANGED <<pc, coreVars, mainVars, xnatVars>>
    /\ UNCHANGED <<reg_mode, moving, fixed, tx, stop, execs, tx_rigid, final_tx,
                   resampled, returned>>

\* the optimizer stops, converged or at its iteration cap, and Execute
\* returns the transform found
StopOptimizer(method) ==
    /\ pc = IF method = "rigid" THEN "rigid_exec" ELSE "reg_exec"
    /\ it >= 1
    /\ \E reason \in {"converged", "max_iterations"} :
          /\ reason = "max_iterations" => it >= numberOfIterations(reg_mode, method)
          /\ stop' = [stop EXCEPT ![method] = reason]
          /\ pc' = AfterStop(method, reason)
    /\ \E s \in FoundShifts :
          IF method = "rigid"
          THEN tx_rigid' = [kind |-> "euler", shift |-> s] /\ UNCHANGED final_tx
          ELSE final_tx' = [kind |-> tx.kind, shift |-> s] /\ UNCHANGED tx_rigid
    /\ UNCHANGED <<dcmVars, fileVars, rigid_tx, requests>>
    /\ UNCHANGED <<coreVars, mainVars, xnatVars>>
    /\ UNCHANGED <<reg_mode, moving, fixed, tx, it, execs, resampled, returned>>

\* line 220: the moving volume is resampled onto the fixed grid
ResampleVolume ==
    /\ pc = "resample"
    /\ resampled' = Resample(moving, fixed, final_tx)
    /\ pc' = "save"
    /\ UNCHANGED <<dcmVars, fileVars, rigid_tx, requests>>
    /\ UNCHANGED <<coreVars, mainVars, xnatVars>>
    /\ UNCHANGED <<reg_mode, moving, fixed, tx, it, stop, execs, tx_rigid, final_tx,
                   returned>>

\* lines 222-226: the registered volume and the transform are written and
\* their paths returned
SaveAndReturn ==
    /\ pc = "save"
    /\ files' = files \cup {"registration/pet_in_template.nii.gz",
                            "registration/pet_to_template.tfm"}
    /\ returned' = [reg_pet |-> resampled, xfm |-> final_tx]
    /\ pc' = "returned"
    /\ UNCHANGED <<dcmVars, fileVars, rigid_tx, requests>>
    /\ UNCHANGED <<coreVars, xnatVars, args, did, out_json, err>>
    /\ UNCHANGED <<reg_mode, moving, fixed, tx, it, stop, execs, tx_rigid, final_tx,
                   resampled>>


\* dcm2niix_convert, lines 133-137, with run: the converter runs in out_dir
\* and exits; a non-zero exit status raises RuntimeError
RunConverter ==
    /\ pc = "dcm_start"
    /\ \E code \in {0, 1} :
          /\ returncode' = code
          /\ IF code # 0
             THEN /\ err' = "RuntimeError"
                  /\ pc' = "failed"
                  /\ out_dir' = out_dir
             ELSE /\ \E new \in ProducedDirs :
                        /\ \A n \in DOMAIN new : new[n].name = n
                        /\ out_dir' = [n \in DOMAIN out_dir \cup DOMAIN new |->
                                          IF n \in DOMAIN new THEN new[n] ELSE out_dir[n]]
                  /\ pc' = "dcm_select"
                  /\ err' = err
    /\ UNCHANGED <<coreVars, regVars, xnatVars, args, did, files, out_json>>
    /\ UNCHANGED <<pet_output, fileVars, rigid_tx, requests>>

\* dcm2niix_convert, lines 139-159: the NIfTI files of out_dir are listed,
\* the largest is renamed to pet.nii.gz and that path returned
SelectMainPet ==
    /\ pc = "dcm_select"
    /\ IF NiiFiles(out_dir) = {}
       THEN /\ err' = "FileNotFoundError"
            /\ pc' = "failed"
            /\ UNCHANGED <<out_dir, pet_output>>
       ELSE /\ \E main_pet \in FirstBySize(out_dir, NiiFiles(out_dir)) :
                  out_dir' = IF main_pet # PetOutput
                             THEN Rename(out_dir, main_pet, PetOutput)
                             ELSE out_dir
            /\ pet_output' = PetOutput
            /\ pc' = "dcm_returned"
            /\ err' = err
    /\ UNCHANGED <<coreVars, regVars, xnatVars, args, did, files, out_json>>
    /\ UNCHANGED <<returncode, fileVars, rigid_tx, requests>>

\* main, lines 556-581: the command line is parsed and the output directory
\* made
ParseArgs ==
    /\ pc = "main"
    /\ IF AcceptsRegMode(args.reg_mode)
       THEN /\ did' = Append(did, "makedirs")
            /\ pc' = "step1"
            /\ err' = err
       ELSE /\ err' = "usage"
            /\ pc' = "failed"
            /\ did' = did
    /\ UNCHANGED <<dcmVars, fileVars, rigid_tx, requests>>
    /\ UNCHANGED <<coreVars, regVars, xnatVars, args, files, out_json>>

\* main, step 1 (lines 584-588): dcm2niix_convert when the input is a DICOM
\* directory; the converter may fail
DicomToNifti ==
    /\ pc = "step1"
    /\ IF args.dicom_dir
       THEN /\ did' = Append(did, "dcm2niix")
            /\ \E ok \in BOOLEAN :
                  IF ok
                  THEN /\ files' = files \cup {"dcm2niix/pet.nii.gz"}
                       /\ pc' = "step2"
                       /\ err' = err
                  ELSE /\ err' = "dcm2niix"
                       /\ pc' = "failed"
                       /\ files' = files
       ELSE /\ pc' = "step2"
            /\ UNCHANGED <<did, files, err>>
    /\ UNCHANGED <<dcmVars, fileVars, rigid_tx, requests>>
    /\ UNCHANGED <<coreVars, regVars, xnatVars, args, out_json>>

\* main, step 2 (lines 591-592): the whole call of
\* pet_to_template_registration.  It loads the PET volume and the template
\* first (169-170), runs the optimizations of the mode, resamples and writes
\* the two files.
RegisterPet ==
    /\ pc = "step2"
    /\ IF args.template_ok
       THEN /\ \E mv \in MainVolumes :
                  \E s \in FoundShifts :
                     LET t == [kind |-> (IF args.reg_mode = "affine" THEN "affine" ELSE "euler"),
                               shift |-> s]
                     IN  /\ moving' = mv
                         /\ final_tx' = t
                         /\ resampled' = Resample(mv, NVox, t)
                         /\ returned' = [reg_pet |-> Resample(mv, NVox, t), xfm |-> t]
            /\ fixed' = NVox
            /\ reg_mode' = args.reg_mode
            /\ execs' = [m \in Methods |->
                            IF m \in OptimizationStages(args.reg_mode) THEN 1 ELSE 0]
            /\ files' = files \cup {"registration/pet_in_template.nii.gz",
                                    "registration/pet_to_template.tfm"}
            /\ did' = Append(did, "registration")
            /\ pc' = "step3"
            /\ err' = err
       ELSE /\ err' = "template"
            /\ pc' = "failed"
            /\ UNCHANGED <<moving, final_tx, resampled, returned, fixed, reg_mode,
                           execs, files, did>>
    /\ UNCHANGED <<dcmVars, fileVars, rigid_tx, requests>>
    /\ UNCHANGED <<coreVars, xnatVars, args, out_json>>
    /\ UNCHANGED <<tx, it, stop, tx_rigid>>

\* main, step 3 (lines 595-597): the registered volume is loaded and the two
\* masks are read and resampled onto its grid, the target mask first
LoadMasks ==
    /\ pc = "step3"
    /\ pet_data' = LoadRegisteredPet(returned, moving)
    /\ IF ~args.target_mask_ok
       THEN /\ err' = "target_mask"
            /\ pc' = "failed"
            /\ UNCHANGED <<tmask, rmask, did>>
       ELSE IF ~args.ref_mask_ok
       THEN /\ err' = "ref_mask"
            /\ pc' = "failed"
            /\ \E tm \in Arr(MaskFileVals, fixed) :
                  tmask' = resample_mask_to_target(tm, [i \in 1..fixed |-> i])
            /\ UNCHANGED <<rmask, did>>
       ELSE /\ \E tm \in Arr(MaskFileVals, fixed) :
                  tmask' = resample_mask_to_target(tm, [i \in 1..fixed |-> i])
            /\ \E rm \in Arr(MaskFileVals, fixed) :
                  rmask' = resample_mask_to_target(rm, [i \in 1..fixed |-> i])
            /\ did' = Append(did, "masks")
            /\ pc' = "suvr"
            /\ err' = err
    /\ UNCHANGED <<dcmVars, fileVars, rigid_tx, requests>>
    /\ UNCHANGED <<regVars, xnatVars, args, files, out_json>>
    /\ UNCHANGED <<tmean, rmean, suvr, tracer, mode, calibs, scaled, mask_file, grid>>

\* main, step 6 (lines 609-643): the result record is built and written to
\* centiloid.json and centiloid.csv
SaveResults ==
    /\ pc = "done"
    /\ out_json' = ResultRecord(tmean, rmean, suvr, scaled, mode)
    /\ json_file' = ResultRecord(tmean, rmean, suvr, scaled, mode)
    /\ csv_file' = CsvRow(tracer, mode, tmean, rmean, suvr, scaled)
    /\ writes' = [f \in ResultFiles |-> writes[f] + 1]
    /\ files' = files \cup {"centiloid.json", "centiloid.csv"}
    /\ did' = Append(did, "results")
    /\ pc' = "qc_png"
    /\ UNCHANGED <<dcmVars, calib_yaml, rigid_tx, requests>>
    /\ UNCHANGED <<coreVars, regVars, xnatVars, args, err>>

\* main, lines 646-647: save_qc_png
SaveQcPng ==
    /\ pc = "qc_png"
    /\ files' = files \cup {"qc_overlay.png"}
    /\ did' = Append(did, "qc_png")
    /\ pc' = "overlay"
    /\ UNCHANGED <<dcmVars, fileVars, rigid_tx, requests>>
    /\ UNCHANGED <<coreVars, regVars, xnatVars, args, out_json, err>>

\* main, lines 650-665: write_pet_with_mask_overlay_series
WriteOverlaySeries ==
    /\ pc = "overlay"
    /\ files' = files \cup {"dicom_series/pet_overlay_series"}
    /\ did' = Append(did, "overlay_series")
    /\ pc' = "report"
    /\ UNCHANGED <<dcmVars, fileVars, rigid_tx, requests>>
    /\ UNCHANGED <<coreVars, regVars, xnatVars, args, out_json, err>>

\* main, lines 668-679: _compose_qc_pdf formats the four metrics into the
\* report, which is then wrapped into the two DICOM objects; the record
\* takes its "outputs" entry and is printed
WriteReport ==
    /\ pc = "report"
    /\ IF \A f \in Metrics : Format6g(out_json[f]) # "ValueError"
       THEN /\ files' = files \cup {"qc_report.pdf", "dicom_series/QC_Report.pdf.dcm",
                                    "dicom_series/QC_Report_SC.dcm"}
            /\ out_json' = WithEntry(out_json, "outputs", "dicom_series")
            /\ did' = Append(did, "report")
            /\ pc' = "xnat"
            /\ err' = err
       ELSE /\ err' = "ValueError"
            /\ pc' = "failed"
            /\ UNCHANGED <<files, did, out_json>>
    /\ UNCHANGED <<dcmVars, fileVars, rigid_tx, requests>>
    /\ UNCHANGED <<coreVars, regVars, xnatVars, args>>

\* main, lines 682-755: the upload to XNAT when its options are complete and
\* it is not skipped; whatever the upload does, main records the outcome in
\* the record and ends
UploadOrSkip ==
    /\ pc = "xnat"
    /\ IF XnatUploadRequested(args)
       THEN /\ \E outcome \in UploadOutcomes :
                  /\ ret' = IF outcome = "ImportError" THEN ret ELSE (outcome = "True")
                  /\ out_json' = WithEntry(out_json, "xnat_upload",
                                           IF outcome = "True" THEN "success" ELSE "failed")
            /\ did' = Append(did, "xnat_upload")
       ELSE UNCHANGED <<ret, did, out_json>>
    /\ pc' = "exit"
    /\ UNCHANGED <<dcmVars, fileVars, rigid_tx, requests>>
    /\ UNCHANGED <<coreVars, regVars, args, files, err>>
    /\ UNCHANGED <<results_file, out_files, server, assessment_id, todo,
                   success_count, total_files, sent, upload_ret>>


\* upload_to_xnat, lines 434-473: the results file is tested, opened and
\* parsed, the uploader is built and test_connection called
LoadResultsFile ==
    /\ pc = "xnat_start"
    /\ LET r == LoadResults(results_file)
       IN  IF r.raised # ""
           THEN IF Caught(r.raised, UploadHandlers)
                THEN ret' = FALSE /\ pc' = "xnat_returned" /\ err' = err
                ELSE err' = r.raised /\ pc' = "failed" /\ ret' = ret
           ELSE IF r.value = "return False"
           THEN ret' = FALSE /\ pc' = "xnat_returned" /\ err' = err
           ELSE IF ~test_connection
           THEN ret' = FALSE /\ pc' = "xnat_returned" /\ err' = err
           ELSE pc' = AfterConnectionTest /\ UNCHANGED <<ret, err>>
    /\ UNCHANGED <<dcmVars, fileVars, rigid_tx, requests>>
    /\ UNCHANGED <<coreVars, regVars, args, did, files, out_json>>
    /\ UNCHANGED <<results_file, out_files, server, assessment_id, todo,
                   success_count, total_files, sent, upload_ret>>

\* upload_to_xnat, lines 477-482, with the whole of create_assessment: the
\* request is sent unless building its body raised, the server answers, the
\* method returns an ID or None
CreateAssessment(responses) ==
    /\ pc = "create"
    /\ \E resp \in responses :
          LET r == create_assessment_try(results_file, resp)
          IN  /\ server' = resp
              /\ requests' = IF results_file = "bad_shape" THEN requests
                              ELSE Append(requests, CreateRequest)
              /\ IF r.raised # "" /\ ~Caught(r.raised, CreateHandlers)
                 THEN /\ err' = r.raised
                      /\ pc' = "failed"
                      /\ UNCHANGED <<assessment_id, ret>>
                 ELSE /\ assessment_id' = (IF r.raised # "" THEN None ELSE r.value)
                      /\ err' = err
                      /\ IF AssessmentCreated(IF r.raised # "" THEN None ELSE r.value)
                         THEN pc' = "upload_begin" /\ ret' = ret
                         ELSE pc' = "xnat_returned" /\ ret' = FALSE
    /\ UNCHANGED <<dcmVars, fileVars, rigid_tx>>
    /\ UNCHANGED <<coreVars, regVars, args, did, files, out_json>>
    /\ UNCHANGED <<results_file, out_files, todo, success_count, total_files, sent,
                   upload_ret>>

\* upload_files, lines 149-167: the list of files to upload is built, the
\* four standard files followed by the DICOM objects found by glob
UploadFilesBegin ==
    /\ pc = "upload_begin"
    /\ \E q \in Orders(out_files \cap DicomFiles) : todo' = StandardFiles \o q
    /\ success_count' = 0
    /\ total_files' = Len(todo')
    /\ sent' = <<>>
    /\ pc' = "upload_loop"
    /\ UNCHANGED <<dcmVars, fileVars, rigid_tx, requests>>
    /\ UNCHANGED <<coreVars, regVars, mainVars>>
    /\ UNCHANGED <<results_file, out_files, server, assessment_id, upload_ret, ret>>

\* upload_files, lines 169-177: one turn of the loop: a file that does not
\* exist is skipped, any other is handed to _upload_single_file, which
\* returns True, or False on any exception: of open, before the request is
\* sent, or of the request
UploadNext ==
    /\ pc = "upload_loop"
    /\ todo # <<>>
    /\ IF Head(todo) \notin out_files
       THEN UNCHANGED <<success_count, sent, requests>>
       ELSE \E ok, posted \in BOOLEAN :
               /\ ok => posted
               /\ sent' = Append(sent, [file |-> Head(todo), ok |-> ok])
               /\ success_count' = IF ok THEN success_count + 1 ELSE success_count
               /\ requests' = IF posted THEN Append(requests, UploadRequest(Head(todo)))
                               ELSE requests
    /\ todo' = Tail(todo)
    /\ UNCHANGED <<dcmVars, fileVars, rigid_tx>>
    /\ UNCHANGED <<pc, coreVars, regVars, mainVars>>
    /\ UNCHANGED <<results_file, out_files, server, assessment_id, total_files,
                   upload_ret, ret>>

\* upload_files, lines 179-180: the loop is over, the counts are compared
UploadFilesReturn ==
    /\ pc = "upload_loop"
    /\ todo = <<>>
    /\ upload_ret' = (success_count = total_files)
    /\ pc' = "upload_done"
    /\ UNCHANGED <<dcmVars, fileVars, rigid_tx, requests>>
    /\ UNCHANGED <<coreVars, regVars, mainVars>>
    /\ UNCHANGED <<results_file, out_files, server, assessment_id, todo,
                   success_count, total_files, sent, ret>>

\* upload_to_xnat, lines 486-493: False when upload_files returned False,
\* True otherwise
ReturnFromUpload ==
    /\ pc = "upload_done"
    /\ ret' = upload_ret
    /\ pc' = "xnat_returned"
    /\ UNCHANGED <<dcmVars, fileVars, rigid_tx, requests>>
    /\ UNCHANGED <<coreVars, regVars, mainVars>>
    /\ UNCHANGED <<results_file, out_files, server, assessment_id, todo,
                   success_count, total_files, sent, upload_ret>>


\* ------------------------------------------------------------------------
\* Specifications
\* ------------------------------------------------------------------------
\* region statistics over every volume and every mask of the input domains
InitMean ==
    /\ pc = "region"
    /\ pet_data \in Arr(PetVals, NVox)
    /\ tmask \in Arr(MaskVals, NVox)
    /\ rmask = <<>>
    /\ suvr = NaN
    /\ NoMeans /\ NoCalib /\ NoMaskFile
    /\ NoReg /\ NoMain /\ NoXnat
    /\ NoDcm /\ NoFiles /\ rigid_tx = NoTransform /\ requests = <<>>
NextMean == MeanInMask
SpecMean == InitMean /\ [][NextMean]_vars

\* steps 4 and 5 of main on a registered volume and two transferred masks
InitSuvr ==
    /\ pc = "suvr"
    /\ pet_data \in Arr(PetVals, NVox)
    /\ tmask \in Arr(BinVals, NVox)
    /\ rmask \in Arr(BinVals, NVox)
    /\ suvr = NaN
    /\ tracer = "FBP" /\ mode = "amyloid" /\ calibs = EmptyDict /\ scaled = NaN
    /\ NoMeans /\ NoMaskFile
    /\ NoReg /\ NoMain /\ NoXnat
    /\ NoDcm /\ NoFiles /\ rigid_tx = NoTransform /\ requests = <<>>
NextSuvr == ComputeSuvr \/ ConvertToScale(FewCalibs)
SpecSuvr == InitSuvr /\ [][NextSuvr]_vars

\* convert_to_scale over every ratio, tracer, mode and table of the input domains
InitScale ==
    /\ pc = "calib"
    /\ suvr \in SuvrVals
    /\ tracer \in Tracers
    /\ mode \in Modes
    /\ calibs = EmptyDict /\ scaled = NaN
    /\ NoRegion /\ NoMeans /\ NoMaskFile
    /\ NoReg /\ NoMain /\ NoXnat
    /\ NoDcm /\ NoFiles /\ rigid_tx = NoTransform /\ requests = <<>>
NextScale == ConvertToScale(Calibs)
SpecScale == InitScale /\ [][NextScale]_vars

\* mask transfer from every stored mask onto every target grid, and back
InitMask ==
    /\ pc = "mask"
    /\ mask_file \in UNION {Arr(MaskVals, n) : n \in 1..NVox}
    /\ grid = <<>>
    /\ pet_data = <<>> /\ tmask = <<>> /\ rmask = <<>>
    /\ suvr = NaN
    /\ NoMeans /\ NoCalib
    /\ NoReg /\ NoMain /\ NoXnat
    /\ NoDcm /\ NoFiles /\ rigid_tx = NoTransform /\ requests = <<>>
NextMask == ResampleMask \/ StoreMask
SpecMask == InitMask /\ [][NextMask]_vars

\* pet_to_template_registration in both modes main can pass
InitReg ==
    /\ pc = "reg_load"
    /\ reg_mode \in {"rigid", "affine"}
    /\ moving = <<>> /\ fixed = 0 /\ tx = NoTransform /\ it = 0
    /\ stop = NoStop /\ execs = NoExecs /\ tx_rigid = NoTransform
    /\ final_tx = NoTransform /\ resampled = <<>> /\ returned = NoReturn
    /\ NoCore /\ NoMain /\ NoXnat
    /\ NoDcm /\ NoFiles /\ rigid_tx = NoTransform /\ requests = <<>>
NextReg ==
    \/ LoadVolumes
    \/ StartRigid
    \/ Iterate("rigid")
    \/ StopOptimizer("rigid")
    \/ StartReg
    \/ Iterate("reg")
    \/ StopOptimizer("reg")
    \/ ResampleVolume
    \/ SaveAndReturn
SpecReg == InitReg /\ [][NextReg]_vars

\* the resampling of line 220 over every volume, grid and transform of the
\* input domains
InitResample ==
    /\ pc = "resample"
    /\ reg_mode \in {"rigid"}
    /\ moving \in UNION {Arr(MovingVals, n) : n \in 1..NVox}
    /\ fixed \in 1..NVox
    /\ final_tx \in Transforms
    /\ tx = NoTransform /\ it = 0
    /\ stop = NoStop /\ execs = NoExecs /\ tx_rigid = NoTransform
    /\ resampled = <<>> /\ returned = NoReturn
    /\ NoCore /\ NoMain /\ NoXnat
    /\ NoDcm /\ NoFiles /\ rigid_tx = NoTransform /\ requests = <<>>
NextResample == ResampleVolume \/ SaveAndReturn
SpecResample == InitResample /\ [][NextResample]_vars

\* a run of main over every command line of the input domains
Init ==
    /\ pc = "main"
    /\ args \in ArgSets
    /\ did = <<>> /\ files = {} /\ out_json = NoJson /\ err = ""
    /\ tracer = "FBP" /\ mode \in {"amyloid", "tau"}
    /\ calibs = EmptyDict /\ scaled = NaN
    /\ suvr = NaN
    /\ NoRegion /\ NoMeans /\ NoMaskFile /\ NoReg /\ NoXnat
    /\ NoDcm /\ NoFiles /\ rigid_tx = NoTransform /\ requests = <<>>
Next ==
    \/ ParseArgs
    \/ DicomToNifti
    \/ RegisterPet
    \/ LoadMasks
    \/ ComputeSuvr
    \/ ConvertToScale(MainCalibs)
    \/ SaveResults
    \/ SaveQcPng
    \/ WriteOverlaySeries
    \/ WriteReport
    \/ UploadOrSkip
Spec == Init /\ [][Next]_vars

\* upload_to_xnat over every results file and output directory
InitXnat ==
    /\ pc = "xnat_start"
    /\ results_file \in ResultsFiles
    /\ out_files \in OutputDirs
    /\ server = NoServer /\ assessment_id = None /\ todo = <<>>
    /\ success_count = 0 /\ total_files = 0 /\ sent = <<>>
    /\ upload_ret = FALSE /\ ret = FALSE
    /\ NoCore /\ NoReg /\ NoMain
    /\ NoDcm /\ NoFiles /\ rigid_tx = NoTransform /\ requests = <<>>
NextXnat ==
    \/ LoadResultsFile
    \/ CreateAssessment(FewResponses)
    \/ UploadFilesBegin
    \/ UploadNext
    \/ UploadFilesReturn
    \/ ReturnFromUpload
SpecXnat == InitXnat /\ [][NextXnat]_vars

\* create_assessment over every answer of the server
InitCreate ==
    /\ pc = "create"
    /\ results_file \in {"bad_shape", "ok"}
    /\ out_files \in {{}, Range(StandardFiles)}
    /\ server = NoServer /\ assessment_id = None /\ todo = <<>>
    /\ success_count = 0 /\ total_files = 0 /\ sent = <<>>
    /\ upload_ret = FALSE /\ ret = FALSE
    /\ NoCore /\ NoReg /\ NoMain
    /\ NoDcm /\ NoFiles /\ rigid_tx = NoTransform /\ requests = <<>>
NextCreate == CreateAssessment(Responses)
SpecCreate == InitCreate /\ [][NextCreate]_vars

\* upload_files over every output directory
InitUpload ==
    /\ pc = "upload_begin"
    /\ results_file = "ok"
    /\ out_files \in OutputDirs
    /\ server = NoServer /\ assessment_id = "A1" /\ todo = <<>>
    /\ success_count = 0 /\ total_files = 0 /\ sent = <<>>
    /\ upload_ret = FALSE /\ ret = FALSE
    /\ NoCore /\ NoReg /\ NoMain
    /\ NoDcm /\ NoFiles /\ rigid_tx = NoTransform /\ requests = <<>>
NextUpload == UploadFilesBegin \/ UploadNext \/ UploadFilesReturn
SpecUpload == InitUpload /\ [][NextUpload]_vars

\* dcm2niix_convert over every outcome of the converter, in an output
\* directory that is new or was used by an earlier run
InitDcm ==
    /\ pc = "dcm_start"
    /\ out_dir \in EarlierDirs
    /\ returncode = 0 /\ pet_output = ""
    /\ NoCore /\ NoReg /\ NoMain /\ NoXnat
    /\ NoFiles /\ rigid_tx = NoTransform /\ requests = <<>>
NextDcm == RunConverter \/ SelectMainPet
SpecDcm == InitDcm /\ [][NextDcm]_vars

\* the upload decision of main over every combination of the XNAT options,
\* taken at the end of a run on an ordinary volume with masks that select
\* every sample and an empty calibration table
AtUploadDecision ==
    LET mv == [i \in 1..NVox |-> IF i = 1 THEN FromInt(1800) ELSE FromInt(1000)]
        t == [kind |-> "euler", shift |-> 0]
        pet == Resample(mv, NVox, t)
        ones == [i \in 1..NVox |-> IntVal(1)]
        res == compute_suvr(pet, ones, ones)
        cal == [md \in {} |-> EmptyDict]
        sc == convert_to_scale(res.suvr, "FBP", "amyloid", cal)
    IN  /\ pc = "xnat"
        /\ did = <<"makedirs", "registration", "masks", "suvr", "calibration",
                   "results", "qc_png", "overlay_series", "report">>
        /\ files = {"registration/pet_in_template.nii.gz",
                    "registration/pet_to_template.tfm", "centiloid.json",
                    "centiloid.csv", "qc_overlay.png", "dicom_series/pet_overlay_series",
                    "qc_report.pdf", "dicom_series/QC_Report.pdf.dcm",
                    "dicom_series/QC_Report_SC.dcm"}
        /\ out_json = WithEntry(ResultRecord(res.t, res.r, res.suvr, sc, "amyloid"),
                                "outputs", "dicom_series")
        /\ json_file = ResultRecord(res.t, res.r, res.suvr, sc, "amyloid")
        /\ csv_file = CsvRow("FBP", "amyloid", res.t, res.r, res.suvr, sc)
        /\ writes = [f \in ResultFiles |-> 1]
        /\ err = ""
        /\ pet_data = pet /\ tmask = ones /\ rmask = ones
        /\ tmean = res.t /\ rmean = res.r /\ suvr = res.suvr
        /\ tracer = "FBP" /\ mode = "amyloid"
        /\ calibs = cal /\ calib_yaml = cal /\ scaled = sc
        /\ NoMaskFile
        /\ reg_mode = "rigid" /\ moving = mv /\ fixed = NVox
        /\ tx = NoTransform /\ it = 0 /\ stop = NoStop
        /\ execs = [m \in Methods |-> IF m = "reg" THEN 1 ELSE 0]
        /\ tx_rigid = NoTransform /\ rigid_tx = NoTransform /\ final_tx = t
        /\ resampled = pet /\ returned = [reg_pet |-> pet, xfm |-> t]
        /\ NoXnat /\ requests = <<>> /\ NoDcm
InitGate == args \in XnatArgSets /\ AtUploadDecision
NextGate == UploadOrSkip
SpecGate == InitGate /\ [][NextGate]_vars

\* ------------------------------------------------------------------------
\* Properties
\* ------------------------------------------------------------------------
\* the mask selects no sample of the volume
SelectsNone(mask) == \A i \in 1..Len(mask) : ~NumGt(mask[i], Zero)

\* the mask has no overlap with the volume's nonzero region
NoOverlap(arr, mask) ==
    \A i \in 1..Len(mask) : NumGt(mask[i], Zero) => IsZero(arr[i])

\* C1 as stated: for every mask with zero overlap with the volume's nonzero
\* region, the region mean is not-a-number and the selected count is 0.
C1_Original ==
    (pc = "region_done" /\ NoOverlap(pet_data, tmask))
        => (IsNaN(tmean) /\ Len(selected(pet_data, tmask)) = 0)

\* C1 as amended: a mask that selects no sample gives a not-a-number mean with
\* a selected count of 0, never a numeric 0; a mask that selects samples, all
\* of them zero-valued, gives the numeric mean 0.
C1_EmptyMaskMeanUndefined ==
    pc = "region_done" =>
        /\ SelectsNone(tmask)
              => (IsNaN(tmean) /\ Len(selected(pet_data, tmask)) = 0)
        /\ (~SelectsNone(tmask) /\ NoOverlap(pet_data, tmask)) => tmean = Zero

C1_Witness ==
    /\ pc = "region_done"
    /\ SelectsNone(tmask)
    /\ \E i \in 1..Len(tmask) : ~IsZero(tmask[i])
    /\ \E i \in 1..Len(pet_data) : IsFin(pet_data[i]) /\ ~IsZero(pet_data[i])
    /\ IsNaN(tmean)

\* C2: when the reference mean is 0 or not-a-number, or the target mean is
\* not-a-number, the ratio is not-a-number, and so is the scaled value that
\* convert_to_scale gives for it, under the table the run read and under
\* every table of the input domains.
C2_UndefinedRatioPropagates ==
    (pc \in {"calib", "done"} /\ (IsZero(rmean) \/ IsNaN(rmean) \/ IsNaN(tmean)))
        => /\ IsNaN(suvr)
           /\ pc = "done" => IsNaN(scaled)
           /\ pc = "calib" =>
                 \A c \in Calibs : IsNaN(convert_to_scale(suvr, tracer, mode, c))

C2_Witness ==
    /\ pc = "done"
    /\ IsZero(rmean)
    /\ tmean = FromInt(1800)
    /\ "amyloid" \in DOMAIN calibs
    /\ "FBP" \in DOMAIN calibs["amyloid"]
    /\ calibs["amyloid"]["FBP"] = EntryB
    /\ IsNaN(scaled)

\* C3 as stated: the ratio is a defined number only if the reference mean is
\* a finite positive number.
C3_RatioDefinedOnlyForPositiveFiniteReference ==
    (pc \in {"calib", "done"} /\ ~IsNaN(suvr))
        => (IsFin(rmean) /\ FGt(rmean, Zero))

\* m1 * 2^e1 and m2 * 2^e2 are the same number (|m1| < 2^MantBits,
\* |m2| < 2^(2 * MantBits))
SameValue(m1, e1, m2, e2) ==
    IF m1 = 0 \/ m2 = 0 THEN m1 = m2
    ELSE IF e2 - e1 > MantBits \/ e1 - e2 > 2 * MantBits THEN FALSE
    ELSE LET e == Min2(e1, e2)
         IN  m1 * Pow2(e1 - e) = m2 * Pow2(e2 - e)

\* the product a * b is computed without rounding, overflow or underflow
ExactMul(a, b) ==
    (IsFin(a) /\ IsFin(b))
        => LET p == FMul(a, b)
           IN  IsFin(p) /\ SameValue(p.m, p.e, a.m * b.m, a.e + b.e)

\* C4 as stated: for a finite reference mean > 0 the ratio is
\* target_mean / reference_mean, and multiplying both means by the same
\* positive constant (the rescaled means being finite, the reference > 0)
\* leaves the ratio unchanged.
C4_Original ==
    (pc = "calib" /\ IsFin(rmean) /\ FGt(rmean, Zero))
        => /\ suvr = FDiv(tmean, rmean)
           /\ \A c \in ScaleConsts :
                 LET ct == FMul(c, tmean)
                     cr == FMul(c, rmean)
                 IN  (IsFin(cr) /\ FGt(cr, Zero) /\ (IsFin(tmean) => IsFin(ct)))
                         => suvr_ratio(ct, cr) = suvr

\* C4 as amended: for a finite reference mean > 0 the ratio is the correctly
\* rounded quotient target_mean / reference_mean, and multiplying both means
\* by the same positive constant leaves the ratio unchanged whenever both
\* products are exact.
C4_RatioInvariantUnderExactRescaling ==
    (pc = "calib" /\ IsFin(rmean) /\ FGt(rmean, Zero))
        => /\ suvr = FDiv(tmean, rmean)
           /\ \A c \in ScaleConsts :
                 (ExactMul(c, tmean) /\ ExactMul(c, rmean))
                     => suvr_ratio(FMul(c, tmean), FMul(c, rmean)) = suvr

C4_Witness ==
    /\ pc = "calib"
    /\ tmean = FromInt(1800)
    /\ rmean = FromInt(1000)
    /\ suvr = FDiv(FromInt(1800), FromInt(1000))
    /\ \E c \in ScaleConsts :
          /\ c # One
          /\ ExactMul(c, tmean) /\ ExactMul(c, rmean)
          /\ FMul(c, rmean) # rmean

\* the calibration entry the lookup order of the specification resolves to
HasMode == Lower(mode) \in DOMAIN calibs
Table == calibs[Lower(mode)]
Matched == HasMode /\ (tracer \in DOMAIN Table \/ "generic" \in DOMAIN Table)
MatchedEntry == IF tracer \in DOMAIN Table THEN Table[tracer] ELSE Table["generic"]

SlopeOf(en) == IF "slope" \in DOMAIN en THEN ToFloat(en["slope"]) ELSE One
InterceptOf(en) == IF "intercept" \in DOMAIN en THEN ToFloat(en["intercept"]) ELSE Zero
Linear(en, r) == FAdd(FMul(SlopeOf(en), r), InterceptOf(en))

\* C5: within the mode's sub-table the tracer's own entry is used whenever it
\* is present, also beside a generic entry, and the generic entry only when
\* the tracer key is absent; table {amyloid: {generic: {slope 2, intercept
\* 1}}}, tracer XYZ, mode amyloid and ratio r give 2r + 1.
C5_LookupOrder ==
    (pc = "done" /\ HasMode)
        => /\ tracer \in DOMAIN Table => scaled = Linear(Table[tracer], suvr)
           /\ (tracer \notin DOMAIN Table /\ "generic" \in DOMAIN Table)
                 => scaled = Linear(Table["generic"], suvr)
           /\ (calibs = [md \in {"amyloid"} |-> [ks \in {"generic"} |-> EntryA]]
                 /\ tracer = "XYZ" /\ mode = "amyloid")
                 => scaled = FAdd(FMul(FromInt(2), suvr), One)

C5_Witness ==
    /\ pc = "done" /\ HasMode
    /\ tracer = "FBP"
    /\ {"FBP", "generic"} \subseteq DOMAIN Table
    /\ scaled = Linear(Table["FBP"], suvr)
    /\ scaled # Linear(Table["generic"], suvr)

\* C6: when the mode is absent from the table, or its sub-table has neither
\* the tracer key nor a generic key, the ratio is returned unchanged.
C6_MissReturnsRatio ==
    (pc = "done" /\ ~Matched) => scaled = suvr

C6_Witness ==
    /\ pc = "done"
    /\ mode = "tau"
    /\ DOMAIN calibs = {"amyloid"}
    /\ tracer \in DOMAIN calibs["amyloid"]
    /\ suvr = FDiv(FromInt(1800), FromInt(1000))
    /\ scaled = suvr

IsIdentityEntry(en) ==
    /\ DOMAIN en = {"slope", "intercept"}
    /\ ToFloat(en["slope"]) = One
    /\ ToFloat(en["intercept"]) = Zero

\* C7: when the matched entry is {slope 1, intercept 0}, the scaled value is
\* the very floating point value of the ratio (not-a-number for a
\* not-a-number ratio).
C7_IdentityEntryExact ==
    (pc = "done" /\ Matched /\ IsIdentityEntry(MatchedEntry)) => scaled = suvr

C7_Witness ==
    /\ pc = "done" /\ Matched
    /\ IsIdentityEntry(MatchedEntry)
    /\ suvr = FromRat(1, 3)
    /\ scaled = suvr

\* C8: when an entry is matched and gives both coefficients, the scaled value
\* is slope * ratio + intercept, each operation rounded; the ratio of the
\* means 1800 and 1000 under {slope 100, intercept -100} scales to 80.
C8_LinearCalibration ==
    (pc = "done" /\ Matched /\ DOMAIN MatchedEntry = {"slope", "intercept"})
        => /\ scaled = FAdd(FMul(ToFloat(MatchedEntry["slope"]), suvr),
                            ToFloat(MatchedEntry["intercept"]))
           /\ (MatchedEntry = EntryB /\ suvr = suvr_ratio(FromInt(1800), FromInt(1000)))
                 => scaled = FromInt(80)

C8_Witness ==
    /\ pc = "done" /\ Matched
    /\ MatchedEntry = EntryB
    /\ suvr = suvr_ratio(FromInt(1800), FromInt(1000))
    /\ scaled = FromInt(80)

\* C9: a matched entry without slope is applied with slope 1.0 and its own
\* intercept; one without intercept with intercept 0.0 and its own slope.
C9_MissingFieldDefaults ==
    (pc = "done" /\ Matched)
        => /\ "slope" \notin DOMAIN MatchedEntry
                 => scaled = FAdd(FMul(One, suvr), InterceptOf(MatchedEntry))
           /\ "intercept" \notin DOMAIN MatchedEntry
                 => scaled = FAdd(FMul(SlopeOf(MatchedEntry), suvr), Zero)

C9_Witness ==
    /\ pc = "done" /\ Matched
    /\ MatchedEntry = EntryI
    /\ suvr = FromInt(3)
    /\ scaled = FromInt(6)

\* C10: every mask resample_mask_to_target returns has the target grid's
\* samples and only the values 0 and 1, a sample being 1 exactly when the
\* nearest source sample is > 0.5; this holds for any stored mask values,
\* any target grid, and for a mask resampled again after being stored.
C10_ResampledMaskBinary ==
    pc = "mask_done" =>
        /\ Len(tmask) = Len(grid)
        /\ \A i \in 1..Len(tmask) :
              /\ tmask[i] \in {IntVal(0), IntVal(1)}
              /\ tmask[i] = IntVal(1)
                    <=> (grid[i] # 0 /\ NumGt(mask_file[grid[i]], Half))

C10_Witness ==
    /\ pc = "mask_done"
    /\ \E i \in 1..Len(grid) :
          grid[i] # 0 /\ mask_file[grid[i]] = FromInt(2) /\ tmask[i] = IntVal(1)
    /\ \E i \in 1..Len(grid) :
          grid[i] # 0 /\ mask_file[grid[i]] = FromRat(2, 5) /\ tmask[i] = IntVal(0)

\* ------------------------------------------------------------------------
\* C11: a registration mode other than "rigid" or "affine" is a
\* configuration error raised before registration begins: in a run with such
\* a mode the first step ends the run with the usage error, nothing has been
\* done or written, and no optimization is ever run.
\* ------------------------------------------------------------------------
Did(step) == \E i \in 1..Len(did) : did[i] = step

C11_BadRegModeRejected ==
    args.reg_mode \notin {"rigid", "affine"} =>
       /\ execs = NoExecs
       /\ ~Did("registration")
       /\ did = <<>> /\ files = {}
       /\ pc # "main" => pc = "failed" /\ err = "usage"

\* the run with --reg-mode bspline has ended with the usage error
C11_Witness ==
    /\ args.reg_mode = "bspline"
    /\ args.template_ok /\ args.target_mask_ok /\ args.ref_mask_ok
    /\ pc = "failed"
    /\ err = "usage"

\* ------------------------------------------------------------------------
\* C12: a run that fails on a missing template, target mask or reference
\* mask fails before any computation begins: when the error is raised no
\* DICOM conversion and no registration has run and nothing has been
\* written.
\* ------------------------------------------------------------------------
C12_MissingInputFailsFirst ==
    err \in {"template", "target_mask", "ref_mask"} =>
       /\ ~Did("dcm2niix")
       /\ ~Did("registration")
       /\ files = {}

\* ------------------------------------------------------------------------
\* C13: when a mask selects no voxels or the reference mean is zero or
\* undefined, the run does not abort: from the ratio on it never fails and
\* always has a next step until it ends; the result record it writes holds
\* the undefined ratio and scaled value, and at its end centiloid.json,
\* centiloid.csv, the QC image, the DICOM objects and the report have all
\* been written.
\* ------------------------------------------------------------------------
Degenerate ==
    /\ Did("masks")
    /\ pc # "suvr"
    /\ \/ SelectsNone(tmask)
       \/ SelectsNone(rmask)
       \/ IsNaN(rmean)
       \/ IsZero(rmean)

C13_DegenerateRunCompletes ==
    Degenerate =>
       /\ err = ""
       /\ pc # "failed"
       /\ pc # "exit" => ENABLED Next
       /\ IsNaN(suvr)
       /\ Did("results") =>
             /\ IsNaN(out_json.suvr_global_cortex_over_ref)
             /\ IsNaN(out_json.scaled_value)
             /\ out_json.reference_mean = rmean
             /\ {"centiloid.json", "centiloid.csv"} \subseteq files
       /\ pc = "exit" =>
             /\ Did("results") /\ Did("qc_png") /\ Did("overlay_series") /\ Did("report")
             /\ {"centiloid.json", "centiloid.csv", "qc_overlay.png", "qc_report.pdf",
                 "dicom_series/pet_overlay_series", "dicom_series/QC_Report.pdf.dcm",
                 "dicom_series/QC_Report_SC.dcm"} \subseteq files

\* a run whose reference mask selects nothing has ended with all outputs
C13_Witness ==
    /\ pc = "exit"
    /\ SelectsNone(rmask)
    /\ ~SelectsNone(tmask)
    /\ IsNaN(out_json.scaled_value)
    /\ "qc_report.pdf" \in files

\* ------------------------------------------------------------------------
\* C14: registration always terminates: the optimizer of a method never takes
\* more iterations than its cap (200 in rigid mode; 150 in the rigid stage and
\* 200 in the affine stage of affine mode), at the cap it cannot iterate
\* again, and no method is executed more than once.
\* ------------------------------------------------------------------------
C14_IterationCaps ==
    /\ pc = "rigid_exec" => reg_mode = "affine" /\ it <= 150
    /\ pc = "reg_exec" => it <= 200
    /\ pc = "rigid_exec" /\ it = 150 => ~ENABLED Iterate("rigid")
    /\ pc = "reg_exec" /\ it = 200 => ~ENABLED Iterate("reg")
    /\ \A m \in Methods : execs[m] <= 1

\* the affine stage has used all of its 200 iterations after a rigid stage
\* that used all of its 150
C14_Witness ==
    /\ reg_mode = "affine"
    /\ pc = "reg_exec"
    /\ it = 200
    /\ stop["rigid"] = "max_iterations"

\* ------------------------------------------------------------------------
\* C15: registration neither aborts nor retries on non-convergence: however
\* an optimizer stopped (converged, or at its iteration cap), the function
\* goes on to the next step, every stage of the mode has been executed
\* exactly once when it returns, and what it saved and returned is the
\* transform found and the volume resampled through it.
\* ------------------------------------------------------------------------
C15_NoAbortNoRetry ==
    /\ err = ""
    /\ stop["rigid"] # "" => pc \in {"reg_start", "reg_exec", "resample", "save", "returned"}
    /\ stop["reg"] # "" => pc \in {"resample", "save", "returned"}
    /\ pc = "returned" =>
          /\ execs["reg"] = 1
          /\ execs["rigid"] = (IF reg_mode = "affine" THEN 1 ELSE 0)
          /\ returned.xfm = final_tx
          /\ returned.reg_pet = resampled
          /\ resampled = Resample(moving, fixed, final_tx)
          /\ {"registration/pet_in_template.nii.gz",
              "registration/pet_to_template.tfm"} \subseteq files

\* an affine run has returned whose rigid stage converged and whose affine
\* stage ran into its iteration cap
C15_Witness ==
    /\ pc = "returned"
    /\ reg_mode = "affine"
    /\ stop["rigid"] = "converged"
    /\ stop["reg"] = "max_iterations"
    /\ returned.xfm.shift = 4

\* ------------------------------------------------------------------------
\* C16: in affine mode the rigid pre-alignment is solved before the affine
\* optimization, with a lower iteration budget, and the affine optimization
\* starts from the rigid solution; in rigid mode the rigid pre-alignment is
\* never run and the single optimization is a rigid one.
\* ------------------------------------------------------------------------
C16_RigidThenAffine ==
    /\ reg_mode = "affine" =>
          /\ numberOfIterations(reg_mode, "rigid") < numberOfIterations(reg_mode, "reg")
          /\ execs["reg"] >= 1 => execs["rigid"] = 1 /\ stop["rigid"] # ""
          /\ pc = "reg_exec" => tx = [kind |-> "affine", shift |-> tx_rigid.shift]
          /\ final_tx # NoTransform => final_tx.kind = "affine"
    /\ reg_mode = "rigid" =>
          /\ execs["rigid"] = 0
          /\ execs["reg"] <= 1
          /\ pc = "reg_exec" => tx.kind = "euler"
          /\ final_tx # NoTransform => final_tx.kind = "euler"

\* the affine optimization is starting from a rigid solution that is not the
\* identity
C16_Witness ==
    /\ reg_mode = "affine"
    /\ pc = "reg_exec"
    /\ it = 0
    /\ tx_rigid = [kind |-> "euler", shift |-> 4]
    /\ tx.shift = 4

\* ------------------------------------------------------------------------
\* C17: the registered volume has one sample per sample of the fixed grid;
\* a sample whose position, mapped through the final transform, lies outside
\* the moving volume is 0, and every other sample is the linear
\* interpolation of the moving volume's two neighbouring samples.
\* ------------------------------------------------------------------------
LinearBetween(a, b, d) == FAdd(FMul(FromRat(4 - d, 4), a), FMul(FromRat(d, 4), b))

MapsOutside(i) ==
    \/ 4 * i + final_tx.shift < 2
    \/ 4 * i + final_tx.shift >= 4 * Len(moving) + 2

C17_RegisteredVolume ==
    pc \in {"save", "returned"} =>
       /\ Len(resampled) = fixed
       /\ \A i \in 1..fixed :
             LET p == 4 * i + final_tx.shift
                 k == p \div 4
             IN  /\ MapsOutside(i) => resampled[i] = Zero
                 /\ ~MapsOutside(i) /\ p % 4 = 0 => resampled[i] = moving[k]
                 /\ ~MapsOutside(i) /\ p % 4 # 0 /\ k >= 1 /\ k < Len(moving) =>
                       resampled[i] = LinearBetween(moving[k], moving[k + 1], p % 4)
                 /\ ~MapsOutside(i) /\ k < 1 => resampled[i] = LinearBetween(moving[1], moving[1], p % 4)
                 /\ ~MapsOutside(i) /\ p % 4 # 0 /\ k >= Len(moving) =>
                       resampled[i] = LinearBetween(moving[Len(moving)], moving[Len(moving)], p % 4)

\* a registered volume on a grid of two samples, the first interpolated
\* between two different samples of the moving volume, the second outside it
C17_Witness ==
    /\ pc = "save"
    /\ fixed = 2
    /\ moving = <<FromInt(4), FromInt(0 - 8)>>
    /\ final_tx.shift = 3
    /\ resampled[1] = FromInt(0 - 5)
    /\ resampled[2] = Zero

\* ------------------------------------------------------------------------
\* C18: upload_to_xnat returns True only if the results file was found and
\* parsed, an assessment was created and upload_files returned True; in
\* every other case it returns False; it never raises.
\* ------------------------------------------------------------------------
C18_UploadToXnatResult ==
    /\ err = ""
    /\ pc # "failed"
    /\ pc = "xnat_returned" =>
          (ret <=> /\ results_file \in {"ok", "bad_shape"}
                   /\ assessment_id # None
                   /\ upload_ret)

\* the call has returned True after six uploads
C18_Witness ==
    /\ pc = "xnat_returned"
    /\ ret
    /\ Len(sent) = 6
    /\ assessment_id = "A1"

\* ------------------------------------------------------------------------
\* C19: upload_files returns True if all uploads were successful and False
\* otherwise, whatever files are present in the output directory (some of
\* the four standard files may be absent).
\* ------------------------------------------------------------------------
C19_TrueIffAllUploadsSucceeded ==
    pc = "upload_done" => (upload_ret <=> \A i \in 1..Len(sent) : sent[i].ok)

\* ------------------------------------------------------------------------
\* C20: create_assessment returns the assessment ID if the creation
\* succeeded and None if it failed: results it cannot turn into XML, a
\* failed request, an HTTP error status, or a response that carries no ID
\* give None; the method never raises.
\* ------------------------------------------------------------------------
CarriedId(resp) ==
    IF resp.body # "parsed" THEN resp.regex
    ELSE IF resp.ctype = "json" /\ resp.ID \in {None, ""} THEN resp.id
    ELSE resp.ID

C20_CreateAssessmentResult ==
    /\ err = ""
    /\ pc # "failed"
    /\ pc # "create" =>
          /\ results_file = "bad_shape" => assessment_id = None
          /\ server.status # "ok" => assessment_id = None
          /\ CarriedId(server) \in {None, ""} => assessment_id = None
          /\ /\ results_file = "ok"
             /\ server.status = "ok"
             /\ CarriedId(server) \notin {None, ""}
             => assessment_id = CarriedId(server)

\* the server answered with an error status and a body that names an ID:
\* the method returned None
C20_Witness ==
    /\ pc = "xnat_returned"
    /\ results_file = "ok"
    /\ server.status = "http_error"
    /\ server.body = "parsed"
    /\ server.ID = "A1"
    /\ assessment_id = None

\* C21: within one upload_to_xnat call no file upload request is sent before
\* the request that creates the assessment, nor without an assessment ID; a
\* call whose assessment creation failed returns False having sent no file
\* upload request.
C21_AssessmentBeforeUploads ==
    /\ \A i \in 1..Len(requests) :
          requests[i].kind = "upload"
              => /\ i > 1
                 /\ requests[1].kind = "create"
                 /\ assessment_id \notin {None, ""}
    /\ sent # <<>> => assessment_id \notin {None, ""}
    /\ (pc = "xnat_returned" /\ assessment_id \in {None, ""})
          => /\ ret = FALSE
             /\ sent = <<>>
             /\ \A i \in 1..Len(requests) : requests[i].kind # "upload"

C21_Witness ==
    /\ pc = "xnat_returned"
    /\ Len(requests) >= 3
    /\ requests[1] = CreateRequest
    /\ requests[2] = UploadRequest("centiloid.json")
    /\ assessment_id = "A1"

\* C30: test_connection is True in every state and sends no request, so
\* upload_to_xnat never returns at its connection test: once the results file
\* is loaded every return comes after create_assessment was called, and a
\* host that cannot be reached makes the call return False at the assessment
\* creation, its only request.
C30_ConnectionTestAlwaysPasses ==
    /\ test_connection
    /\ pc = "create" => requests = <<>>
    /\ (pc = "xnat_returned" /\ results_file \in {"bad_shape", "ok"})
          => server # NoServer
    /\ (pc = "xnat_returned" /\ results_file = "ok" /\ server = ConnectionError)
          => /\ ret = FALSE
             /\ requests = <<CreateRequest>>
             /\ assessment_id = None

C30_Witness ==
    /\ pc = "xnat_returned"
    /\ results_file = "ok"
    /\ server = ConnectionError
    /\ ret = FALSE
    /\ requests = <<CreateRequest>>

\* the translation that puts the centre of the fixed grid on the centre of
\* the moving volume
CentreOffset == 2 * (Len(moving) - fixed)

\* C22: the transform an optimizer starts from when it executes is never the
\* default identity: the rigid pre-alignment and the final optimization of
\* rigid mode start from the Euler transform that aligns the centres of the
\* two volumes, and the final optimization of affine mode starts from the
\* affine form of what the rigid pre-alignment, itself started from the
\* centred transform and run to its end, returned.
C22_ExplicitInitialization ==
    /\ pc = "rigid_exec"
          => rigid_tx = [kind |-> "euler", shift |-> CentreOffset]
    /\ (pc = "reg_exec" /\ reg_mode = "rigid")
          => /\ tx = [kind |-> "euler", shift |-> CentreOffset]
             /\ execs["rigid"] = 0
    /\ (pc = "reg_exec" /\ reg_mode = "affine")
          => /\ tx = [kind |-> "affine", shift |-> tx_rigid.shift]
             /\ stop["rigid"] # ""
             /\ execs["rigid"] = 1
             /\ rigid_tx = [kind |-> "euler", shift |-> CentreOffset]
             /\ tx_rigid.kind = "euler"

C22_Witness ==
    /\ pc = "reg_exec"
    /\ reg_mode = "affine"
    /\ CentreOffset # 0
    /\ rigid_tx.shift = CentreOffset
    /\ tx = [kind |-> "affine", shift |-> 4]

\* the samples of the volume the mask selects that are numbers, in order
NumbersInMask ==
    LET pairs == [i \in 1..Len(pet_data) |-> <<pet_data[i], tmask[i]>>]
        Keep(p) == NumGt(p[2], Zero) /\ ~IsNaN(p[1])
        kept == SelectSeq(pairs, Keep)
    IN  [i \in 1..Len(kept) |-> kept[i][1]]

\* the sum of the first n values of a list, added in order
RECURSIVE SumOfFirst(_, _)
SumOfFirst(q, n) == IF n = 0 THEN Zero ELSE FAdd(SumOfFirst(q, n - 1), q[n])

\* C24: when the mask selects at least one sample that is a number, the
\* region mean is the sum of the selected samples that are numbers divided by
\* how many they are: a not-a-number sample adds nothing to the sum and is
\* not counted.
C24_NanExcludedFromMean ==
    (pc = "region_done" /\ Len(NumbersInMask) > 0)
        => tmean = FDiv(SumOfFirst(NumbersInMask, Len(NumbersInMask)),
                        FromInt(Len(NumbersInMask)))

C24_Witness ==
    /\ pc = "region_done"
    /\ IsNaN(pet_data[1])
    /\ pet_data[2] = FromInt(1000)
    /\ \A i \in 1..Len(tmask) : tmask[i] = One
    /\ Len(NumbersInMask) < Len(selected(pet_data, tmask))
    /\ tmean = FromInt(1000)

\* C26: after convert_to_scale returned, the calibration table is the table
\* that was read from the file, with the same modes, tracer keys, slopes and
\* intercepts, whether an entry matched, the generic entry was used or
\* nothing matched.
C26_TableUnchanged ==
    pc = "done" => calibs = calib_yaml

C26_Witness ==
    /\ pc = "done"
    /\ DOMAIN calib_yaml = {"amyloid"}
    /\ mode = "tau"
    /\ scaled = suvr
    /\ calibs = calib_yaml

\* the place of a step in the order of main
Rank(step) ==
    CASE step = "makedirs" -> 1
      [] step = "dcm2niix" -> 2
      [] step = "registration" -> 3
      [] step = "masks" -> 4
      [] step = "suvr" -> 5
      [] step = "calibration" -> 6
      [] step = "results" -> 7
      [] step = "qc_png" -> 8
      [] step = "overlay_series" -> 9
      [] step = "report" -> 10
      [] step = "xnat_upload" -> 11

\* C23: in every run of main the steps run in the order DICOM conversion
\* (only for a DICOM input), registration, mask transfer, region means and
\* ratio, calibration, result records, none of them before the one it
\* follows has run; what the registration returns is the input resampled
\* through the transform found, the masks are transferred onto its grid, the
\* region means and the ratio are computed from that volume and those masks,
\* and the result record holds them.
C23_StageOrder ==
    /\ \A i, j \in 1..Len(did) : i < j => Rank(did[i]) < Rank(did[j])
    /\ Did("dcm2niix") => args.dicom_dir
    /\ Did("registration") => (args.dicom_dir <=> Did("dcm2niix"))
    /\ Did("masks") => Did("registration")
    /\ Did("suvr") => Did("masks")
    /\ Did("calibration") => Did("suvr")
    /\ Did("results") => Did("calibration")
    /\ pc = "step3" => returned.reg_pet = Resample(moving, fixed, final_tx)
    /\ Did("registration") => returned.reg_pet = resampled
    /\ Did("masks")
          => /\ pet_data = returned.reg_pet
             /\ Len(tmask) = fixed /\ Len(rmask) = fixed
             /\ \A i \in 1..fixed : tmask[i] \in BinVals /\ rmask[i] \in BinVals
    /\ pc = "calib"
          => /\ tmean = mean_in_mask(returned.reg_pet, tmask)
             /\ rmean = mean_in_mask(returned.reg_pet, rmask)
             /\ suvr = compute_suvr(returned.reg_pet, tmask, rmask).suvr
    /\ pc = "done" => scaled = convert_to_scale(suvr, tracer, mode, calib_yaml)
    /\ Did("results")
          => /\ out_json.target_mean = tmean
             /\ out_json.reference_mean = rmean
             /\ out_json.suvr_global_cortex_over_ref = suvr
             /\ out_json.scaled_value = scaled

C23_Witness ==
    /\ pc = "exit"
    /\ Did("dcm2niix")
    /\ final_tx.shift # 0
    /\ returned.reg_pet # moving
    /\ ~IsNaN(tmean)
    /\ tmean # mean_in_mask(moving, tmask)
    /\ tmean = mean_in_mask(returned.reg_pet, tmask)

\* C25: main attempts the XNAT upload exactly when the five options host,
\* user, password, project and session are all given (with a non-empty
\* value) and --skip-xnat-upload is not set; in every other case no upload is
\* attempted and the record takes no upload status.
C25_UploadGate ==
    LET given == /\ \A v \in {args.xnat_host, args.xnat_user, args.xnat_pass,
                                args.xnat_project, args.xnat_session} :
                       v \notin {None, ""}
                 /\ ~args.skip_xnat_upload
    IN  /\ pc = "xnat" => ~Did("xnat_upload")
        /\ pc = "exit"
              => /\ Did("xnat_upload") <=> given
                 /\ "xnat_upload" \in DOMAIN out_json <=> given
                 /\ ~given => ret = FALSE

C25_Witness ==
    /\ pc = "exit"
    /\ args.xnat_host = "v" /\ args.xnat_user = "v" /\ args.xnat_pass = "v"
    /\ args.xnat_project = "v" /\ args.xnat_session = "v"
    /\ ~args.skip_xnat_upload
    /\ Did("xnat_upload")
    /\ ret = TRUE

\* C28: centiloid.json and centiloid.csv are each written once, by the
\* results step, hence before the DICOM outputs and the XNAT upload; from then
\* on the files hold the record of that step: the "outputs" and "xnat_upload"
\* entries the record takes later are in memory only, and an upload that
\* fails or raises leaves the files as they were and the run ends normally.
C28_ResultFilesWrittenOnce ==
    /\ \A f \in ResultFiles : writes[f] = IF Did("results") THEN 1 ELSE 0
    /\ (Did("overlay_series") \/ Did("report") \/ Did("xnat_upload")) => Did("results")
    /\ (files \cap {"dicom_series/pet_overlay_series", "dicom_series/QC_Report.pdf.dcm",
                     "dicom_series/QC_Report_SC.dcm"} # {}) => Did("results")
    /\ Did("results")
          => /\ json_file = [target_mean |-> tmean, reference_mean |-> rmean,
                              suvr_global_cortex_over_ref |-> suvr,
                              scaled_value |-> scaled,
                              scaled_units |-> json_file.scaled_units]
             /\ DOMAIN csv_file = {"tracer", "mode", "target_mean", "reference_mean",
                                    "suvr", "scaled_value", "scaled_units"}
             /\ IF IsNaN(scaled) THEN csv_file.scaled_value = ""
                 ELSE csv_file.scaled_value = scaled
    /\ Did("report") => "outputs" \in DOMAIN out_json
    /\ Did("xnat_upload")
          => /\ "xnat_upload" \in DOMAIN out_json
             /\ pc = "exit"
             /\ err = ""

C28_Witness ==
    /\ pc = "exit"
    /\ Did("xnat_upload")
    /\ out_json.xnat_upload = "failed"
    /\ "outputs" \in DOMAIN out_json
    /\ DOMAIN json_file = Metrics \cup {"scaled_units"}
    /\ \A f \in ResultFiles : writes[f] = 1

\* C29: the units written with the scaled value are "Centiloid" in amyloid
\* mode and "CenTauR (experimental)" otherwise, the same in centiloid.json and
\* centiloid.csv, whether or not a calibration entry matched: a value left
\* unscaled by the fallback carries the units of the mode.
C29_UnitsFollowMode ==
    Did("results")
        => /\ json_file.scaled_units =
                  IF mode = "amyloid" THEN "Centiloid" ELSE "CenTauR (experimental)"
           /\ csv_file.scaled_units = json_file.scaled_units
           /\ out_json.scaled_units = json_file.scaled_units

C29_Witness ==
    /\ pc = "exit"
    /\ mode = "tau"
    /\ Lower(mode) \notin DOMAIN calib_yaml
    /\ DOMAIN calib_yaml = {"amyloid"}
    /\ ~IsNaN(suvr)
    /\ scaled = suvr
    /\ json_file.scaled_units = "CenTauR (experimental)"
    /\ csv_file.scaled_units = "CenTauR (experimental)"

\* the files this conversion produced, under the names they have now
Produced == {n \in DOMAIN out_dir : out_dir[n].run = "this"}

\* the produced files the selection considers: the compressed ones, the
\* uncompressed ones only when no compressed file was produced
Considered ==
    IF \E n \in Produced : Ext(out_dir[n].name) = "nii.gz"
    THEN {n \in Produced : Ext(out_dir[n].name) = "nii.gz"}
    ELSE Produced

\* C27: dcm2niix_convert raises RuntimeError exactly when the converter exits
\* non-zero and FileNotFoundError exactly when it exits zero having produced
\* no NIfTI file; otherwise it returns out_dir/pet.nii.gz, which then holds a
\* file this conversion produced, the largest of the compressed files
\* produced, or of the uncompressed ones when no compressed file was
\* produced.
C27_LargestProducedFile ==
    /\ pc \in {"failed", "dcm_returned"}
          => /\ err = "RuntimeError" <=> returncode # 0
             /\ err = "FileNotFoundError" <=> (returncode = 0 /\ Produced = {})
             /\ pc = "dcm_returned" <=> err = ""
    /\ pc = "dcm_returned"
          => /\ pet_output = PetOutput
             /\ PetOutput \in Considered
             /\ \A n \in Considered : out_dir[PetOutput].size >= out_dir[n].size

====
